---- MODULE Spec2Model ----
(***************************************************************************)
(* ATIS report generation for LERM: the fusion of three provider snapshots *)
(* (Windy forecast, AEMET observation, LERM station page), the rotation of *)
(* the broadcast identifier and the request handler onRequest.             *)
(*                                                                         *)
(* JavaScript values are tagged records, so that null, undefined, NaN,     *)
(* numbers, strings, arrays and objects stay distinct and comparable.      *)
(***************************************************************************)
EXTENDS Integers, Sequences, FiniteSets, TLC

VARIABLES
    currentIdentifierIndex, \* atis.js: module-scoped index into ATIS_IDENTIFIERS
    LAST_BROADCAST_TIME,    \* atis.js: module-scoped observationTime of the last rotation
    pc,                     \* per invocation of onRequest: the await it is suspended at
    context,                \* per invocation: the context.env it was called with
    weatherReport,          \* per invocation: the WeatherReportData being fused
    windyData,              \* per invocation: what fetchWindyData resolved to
    aemetData,              \* per invocation: what getFormattedAtisData resolved to
    response,               \* the Response most recently returned by onRequest
    rot,                    \* locals of the most recent formatReportForATIS call
    merge                   \* state of the stand-alone run of one function

vars == << currentIdentifierIndex, LAST_BROADCAST_TIME, pc, context, weatherReport,
           windyData, aemetData, response, rot, merge >>

pipelineVars == << currentIdentifierIndex, LAST_BROADCAST_TIME, pc, context, weatherReport,
                   windyData, aemetData, response, rot >>

----------------------------------------------------------------------------
(* Bounds of the model *)

\* observation minutes 12:01 .. 12:0<NumTimes> that a provider may report
NumTimes == 2

\* the overlapping invocations of onRequest in one worker instance
Invocations == {"r1", "r2"}

ObsMinutes == 1..NumTimes

----------------------------------------------------------------------------
(* JavaScript values *)

Null == [k |-> "null"]
Undefined == [k |-> "undefined"]
NaN == [k |-> "NaN"]
Num(n) == [k |-> "num", v |-> n]
\* a non-integer number, in hundred-thousandths (Real(777536) is 7.77536)
Real(m) == [k |-> "real", v |-> m]
Str(s) == [k |-> "str", v |-> s]
List(q) == [k |-> "list", v |-> q]
\* an object: a function from its own enumerable keys to values
Obj(f) == [k |-> "obj", v |-> f]
\* a Date holding a valid instant, by its UTC hour and minute
Date(h, m) == [k |-> "date", h |-> h, m |-> m]
\* a thrown Error with its message
Throw(msg) == [k |-> "throw", v |-> msg]

EmptyObject == Obj(<<>>)

\* o[key] of a JavaScript object: undefined when the key is not there
Get(o, key) == IF o.k = "obj" /\ key \in DOMAIN o.v THEN o.v[key] ELSE Undefined

\* o[key] = val
Put(o, key, val) ==
    Obj([x \in (DOMAIN o.v) \cup {key} |-> IF x = key THEN val ELSE o.v[x]])

\* JavaScript truthiness, as used by if (x)
Truthy(x) ==
    CASE x.k \in {"null", "undefined", "NaN"} -> FALSE
      [] x.k \in {"num", "real"} -> x.v # 0
      [] x.k = "str" -> x.v # ""
      [] OTHER -> TRUE

\* x == null (loose): null or undefined
LooseNull(x) == x.k \in {"null", "undefined"}

\* String(n).padStart(2, '0') and padStart(3, '0') for n >= 0
Pad2(n) == IF n < 10 THEN "0" \o ToString(n) ELSE ToString(n)
Pad3(n) ==
    IF n < 10 THEN "00" \o ToString(n)
    ELSE IF n < 100 THEN "0" \o ToString(n) ELSE ToString(n)

----------------------------------------------------------------------------
(* weatherReport.js: WeatherReportData *)

Fields ==
    {"wind_direction", "wind_speed", "gust_direction", "gust_speed", "visibility",
     "temperature", "dew_point", "qnh", "prec", "observationTime",
     "originalSkyDescription", "sky", "phenomenon", "wind_vrb", "clouds",
     "clouds_short"}

\* mergeData with the null test dropped: every own key of the source is copied
mergeData_copyNull(this, sourceObject) ==
    IF sourceObject.k # "obj" THEN this
    ELSE [key \in DOMAIN this |->
            IF key \in DOMAIN sourceObject.v THEN sourceObject.v[key] ELSE this[key]]

\* mergeData with the precedence inverted: a field already set is kept
mergeData_keepFirst(this, sourceObject) ==
    IF sourceObject.k # "obj" THEN this
    ELSE [key \in DOMAIN this |->
            IF key \in DOMAIN sourceObject.v /\ sourceObject.v[key] # Null
               /\ this[key] = Null
            THEN sourceObject.v[key] ELSE this[key]]

\* this.mergeData(sourceObject): the fields of `this` after the call
mergeData(this, sourceObject) ==
    IF sourceObject.k # "obj" THEN this
    ELSE [key \in DOMAIN this |->
            IF key \in DOMAIN sourceObject.v /\ sourceObject.v[key] # Null
            THEN sourceObject.v[key] ELSE this[key]]

\* new WeatherReportData(): every field null, then mergeData({})
NewWeatherReportData == mergeData([key \in Fields |-> Null], EmptyObject)

----------------------------------------------------------------------------
(* Numbers *)

\* Math.round(x): half up; null rounds to 0, undefined and NaN to NaN
MathRound(x) ==
    CASE x.k = "num" -> x
      [] x.k = "real" -> Num((x.v + 50000) \div 100000)
      [] x.k = "null" -> Num(0)
      [] OTHER -> NaN

\* a === b for the values compared in this program (NaN equals nothing)
StrictEq(a, b) == a.k # "NaN" /\ a = b

\* the decimals of a fraction of `width` digits, trailing zeros dropped
RECURSIVE Decimals(_, _)
Decimals(frac, width) ==
    IF frac % 10 = 0 /\ width > 1 THEN Decimals(frac \div 10, width - 1)
    ELSE IF width = 1 THEN ToString(frac)
    ELSE Decimals(frac \div 10, width - 1) \o ToString(frac % 10)

\* String(x) for the values that reach a template
JsString(x) ==
    CASE x.k = "num" -> ToString(x.v)
      [] x.k = "real" ->
            (IF x.v < 0 THEN "-" ELSE "")
            \o ToString((IF x.v < 0 THEN 0 - x.v ELSE x.v) \div 100000) \o "."
            \o Decimals((IF x.v < 0 THEN 0 - x.v ELSE x.v) % 100000, 5)
      [] x.k = "str" -> x.v
      [] x.k = "null" -> "null"
      [] x.k = "undefined" -> "undefined"
      [] OTHER -> "NaN"

\* the comparison x >= n in place of x > n
Greater_orEqual(x, n) ==
    CASE x.k = "num" -> x.v >= n
      [] x.k = "real" -> x.v >= n * 100000
      [] x.k = "null" -> 0 >= n
      [] OTHER -> FALSE

\* x > n in JavaScript for a whole number n: null counts as 0, a comparison
\* with undefined or NaN is false
Greater(x, n) ==
    CASE x.k = "num" -> x.v > n
      [] x.k = "real" -> x.v > n * 100000
      [] x.k = "null" -> 0 > n
      [] OTHER -> FALSE

\* str.replace(searchValue, replaceValue): the first occurrence only
replace(str, searchValue, replaceValue) ==
    LET hits == { i \in 1..(Len(str) - Len(searchValue) + 1) :
                    SubSeq(str, i, i + Len(searchValue) - 1) = searchValue }
    IN  IF hits = {} THEN str
        ELSE LET i == CHOOSE h \in hits : \A g \in hits : h <= g
             IN  SubSeq(str, 1, i - 1) \o replaceValue
                 \o SubSeq(str, i + Len(searchValue), Len(str))

\* str.toUpperCase() for unaccented text
RECURSIVE toUpperCase(_)
toUpperCase(str) ==
    IF Len(str) = 0 THEN ""
    ELSE LET lower == "abcdefghijklmnopqrstuvwxyz"
             upper == "ABCDEFGHIJKLMNOPQRSTUVWXYZ"
             c == SubSeq(str, 1, 1)
             at == { i \in 1..26 : SubSeq(lower, i, i) = c }
         IN  (IF at = {} THEN c ELSE LET i == CHOOSE j \in at : TRUE
                                     IN  SubSeq(upper, i, i))
             \o toUpperCase(SubSeq(str, 2, Len(str)))

\* String(x).padStart(3, '0'): only a short number is padded
PadStart3(x) == IF x.k = "num" /\ x.v >= 0 THEN Pad3(x.v) ELSE JsString(x)

----------------------------------------------------------------------------
(* atis.js: wind variability and runway selection *)

Abs(n) == IF n < 0 THEN -n ELSE n
Min(a, b) == IF a <= b THEN a ELSE b
Max(a, b) == IF a >= b THEN a ELSE b

\* getVRBWind testing its arguments with === null: undefined gets through
getVRBWind_strictNull(windDir1, windDir2) ==
    IF windDir1 = Null \/ windDir2 = Null THEN Str("")
    ELSE LET dir1 == MathRound(windDir1)
             dir2 == MathRound(windDir2)
         IN  IF dir1.k # "num" \/ dir2.k # "num" THEN Str("VRB NaN/NaN")
             ELSE IF dir1.v = dir2.v THEN Str("")
             ELSE LET diff == Abs(dir1.v - dir2.v)
                      crossing == diff # Min(diff, 360 - diff)
                  IN  Str("VRB "
                          \o Pad3(IF crossing THEN Max(dir1.v, dir2.v) ELSE Min(dir1.v, dir2.v))
                          \o "/"
                          \o Pad3(IF crossing THEN Min(dir1.v, dir2.v) ELSE Max(dir1.v, dir2.v)))

\* getVRBWind always reporting the lower bearing first
getVRBWind_lowestFirst(windDir1, windDir2) ==
    IF LooseNull(windDir1) \/ LooseNull(windDir2) THEN Str("")
    ELSE LET dir1 == MathRound(windDir1)
             dir2 == MathRound(windDir2)
         IN  IF dir1.k # "num" \/ dir2.k # "num" THEN Str("VRB NaN/NaN")
             ELSE IF dir1.v = dir2.v THEN Str("")
             ELSE Str("VRB " \o Pad3(Min(dir1.v, dir2.v)) \o "/" \o Pad3(Max(dir1.v, dir2.v)))

\* getVRBWind(windDir1, windDir2)
getVRBWind(windDir1, windDir2) ==
    IF LooseNull(windDir1) \/ LooseNull(windDir2) THEN Str("")
    ELSE LET dir1 == MathRound(windDir1)
             dir2 == MathRound(windDir2)
         IN  IF dir1.k # "num" \/ dir2.k # "num" THEN Str("VRB NaN/NaN")
             ELSE IF dir1.v = dir2.v THEN Str("")
             ELSE LET diff == Abs(dir1.v - dir2.v)
                      shortestDiff == Min(diff, 360 - diff)
                      minDir == IF diff = shortestDiff THEN Min(dir1.v, dir2.v)
                                ELSE Max(dir1.v, dir2.v)
                      maxDir == IF diff = shortestDiff THEN Max(dir1.v, dir2.v)
                                ELSE Min(dir1.v, dir2.v)
                  IN  Str("VRB " \o Pad3(minDir) \o "/" \o Pad3(maxDir))

RWY_01_HDG == 10
RWY_19_HDG == 190

\* getAngularDifference of determineActiveRunway
getAngularDifference(angle1, angle2) ==
    LET diff == Abs(angle1 - angle2) IN Min(diff, 360 - diff)

\* determineActiveRunway selecting 01 only when it is strictly closer
determineActiveRunway_strict(windDirectionDegrees) ==
    LET w == IF windDirectionDegrees.k = "null" THEN Num(0) ELSE windDirectionDegrees
    IN  IF w.k # "num" THEN "19"
        ELSE LET windDir == w.v % 360
                 diffRwy01 == getAngularDifference(windDir, RWY_01_HDG)
                 diffRwy19 == getAngularDifference(windDir, RWY_19_HDG)
             IN  IF diffRwy01 < diffRwy19 THEN "01" ELSE "19"

\* determineActiveRunway(windDirectionDegrees); a NaN comparison is false
determineActiveRunway(windDirectionDegrees) ==
    LET w == IF windDirectionDegrees.k = "null" THEN Num(0) ELSE windDirectionDegrees
    IN  IF w.k # "num" THEN "19"
        ELSE LET windDir == w.v % 360
                 diffRwy01 == getAngularDifference(windDir, RWY_01_HDG)
                 diffRwy19 == getAngularDifference(windDir, RWY_19_HDG)
             IN  IF diffRwy01 <= diffRwy19 THEN "01" ELSE "19"

----------------------------------------------------------------------------
(* windy.js: the forecast provider *)

\* a number of the payload as hundred-thousandths; null counts as 0
Scaled(x) ==
    CASE x.k = "num" -> x.v * 100000
      [] x.k = "real" -> x.v
      [] OTHER -> 0

\* the number that is m hundred-thousandths
Unscaled(m) == IF m % 100000 = 0 THEN Num(m \div 100000) ELSE Real(m)

\* a wind component in m/s, u (eastward) or v (northward), of the wind blowing
\* towards `toward` degrees at `mps` m/s: Math.atan2(u, v) * (180 / Math.PI)
\* is `toward`, in -179..180, and Math.sqrt(u * u + v * v) is `mps`
WindComponent(axis, toward, mps) ==
    [k |-> "component", axis |-> axis, toward |-> toward, mps |-> mps]

\* Math.round(x / 10) * 10 for a whole number x >= 0
RoundToTen(x) == ((x + 5) \div 10) * 10

\* uvToWind(u, v) of parseWindyForecast: speed in knots with one decimal,
\* direction the wind blows from, rounded to 10 degrees
uvToWind(u, v) ==
    IF u = Null \/ v = Null THEN [speed |-> Null, direction |-> Null]
    ELSE IF u.k # "component" \/ v.k # "component"
    THEN [speed |-> NaN, direction |-> NaN]
    ELSE LET directionDeg == (u.toward + 360) % 360
             directionFrom == (directionDeg + 180) % 360
             reportDirection == RoundToTen(directionFrom)
             tenths == (u.mps * 194384 + 5000) \div 10000
         IN  [speed |-> Unscaled(tenths * 10000), direction |-> Num(reportDirection)]

\* x >= n in JavaScript for a whole number n: null counts as 0, undefined and
\* NaN compare false
AtLeast(x, n) ==
    CASE x.k = "num" -> x.v >= n
      [] x.k = "real" -> x.v >= n * 100000
      [] x.k = "null" -> 0 >= n
      [] OTHER -> FALSE

\* percentToOctas with the thresholds exclusive
percentToOctas_exclusive(percent) ==
    IF AtLeast(percent, 89) THEN 8
    ELSE IF AtLeast(percent, 52) THEN 7
    ELSE IF AtLeast(percent, 26) THEN 4
    ELSE IF AtLeast(percent, 2) THEN 2
    ELSE 0

\* percentToOctas(percent) of mapWindyCloudsToOctas
percentToOctas(percent) ==
    IF AtLeast(percent, 88) THEN 8
    ELSE IF AtLeast(percent, 51) THEN 7
    ELSE IF AtLeast(percent, 25) THEN 4
    ELSE IF AtLeast(percent, 1) THEN 2
    ELSE 0

\* octasToCodeShort(octas)
octasToCodeShort(octas) ==
    IF octas = 8 THEN "OVC"
    ELSE IF octas >= 5 THEN "BKN"
    ELSE IF octas >= 3 THEN "SCT"
    ELSE IF octas >= 1 THEN "FEW"
    ELSE "SKC"

\* octasToCode(octas)
octasToCode(octas) ==
    IF octas = 8 THEN "OVERCAST"
    ELSE IF octas >= 5 THEN "BROKEN"
    ELSE IF octas >= 3 THEN "SCATTERED"
    ELSE IF octas >= 1 THEN "FEW"
    ELSE "SKY CLEAR"

P_LOW_CLOUDS == 800
P_MID_CLOUDS == 600
P_HIGH_CLOUDS == 400
FT_PER_HPA == 27

\* calculateAltitude rounding down to the hundred below
calculateAltitude_floor(qnh, layerPressure) ==
    IF qnh.k = "null" THEN Num(0)
    ELSE IF qnh.k # "num" THEN NaN
    ELSE IF qnh.v <= layerPressure THEN Num(0)
    ELSE Num((((qnh.v - layerPressure) * FT_PER_HPA) \div 100) * 100)

\* calculateAltitude(layerPressure) of estimateCloudAltitude(qnh), for a whole
\* qnh: Math.round(altitude / 100) * 100; null compares as 0 and is at or
\* below every layer; undefined and NaN give NaN
calculateAltitude(qnh, layerPressure) ==
    IF qnh.k = "null" THEN Num(0)
    ELSE IF qnh.k # "num" THEN NaN
    ELSE IF qnh.v <= layerPressure THEN Num(0)
    ELSE LET deltaP == qnh.v - layerPressure
             altitude == deltaP * FT_PER_HPA
         IN  Num(((altitude + 50) \div 100) * 100)

\* estimateCloudAltitude(qnh)
estimateCloudAltitude(qnh) ==
    [altitudeLow |-> calculateAltitude(qnh, P_LOW_CLOUDS),
     altitudeMid |-> calculateAltitude(qnh, P_MID_CLOUDS),
     altitudeHigh |-> calculateAltitude(qnh, P_HIGH_CLOUDS)]

\* mapWindyCloudsToOctas without the sky-clear entry for an empty list
mapWindyCloudsToOctas_noClear(lclouds_percent, mclouds_percent, hclouds_percent, qnh) ==
    LET altitudes == estimateCloudAltitude(qnh)
        layer(percent, altitude) ==
            IF percentToOctas(percent) > 0
            THEN << octasToCode(percentToOctas(percent)) \o " at "
                    \o JsString(altitude) \o " feet" >>
            ELSE << >>
        layerShort(percent, altitude) ==
            IF percentToOctas(percent) > 0
            THEN << octasToCodeShort(percentToOctas(percent)) \o " "
                    \o JsString(altitude) \o "ft" >>
            ELSE << >>
    IN  [clouds |-> List(layer(lclouds_percent, altitudes.altitudeLow)
                         \o layer(mclouds_percent, altitudes.altitudeMid)
                         \o layer(hclouds_percent, altitudes.altitudeHigh)),
         clouds_short |-> List(layerShort(lclouds_percent, altitudes.altitudeLow)
                               \o layerShort(mclouds_percent, altitudes.altitudeMid)
                               \o layerShort(hclouds_percent, altitudes.altitudeHigh))]

\* mapWindyCloudsToOctas(lclouds_percent, mclouds_percent, hclouds_percent, qnh)
mapWindyCloudsToOctas(lclouds_percent, mclouds_percent, hclouds_percent, qnh) ==
    LET altitudes == estimateCloudAltitude(qnh)
        lowOctas == percentToOctas(lclouds_percent)
        midOctas == percentToOctas(mclouds_percent)
        highOctas == percentToOctas(hclouds_percent)
        low == IF lowOctas > 0
               THEN << octasToCode(lowOctas) \o " at "
                       \o JsString(altitudes.altitudeLow) \o " feet" >>
               ELSE << >>
        lowShort == IF lowOctas > 0
                    THEN << octasToCodeShort(lowOctas) \o " "
                            \o JsString(altitudes.altitudeLow) \o "ft" >>
                    ELSE << >>
        mid == IF midOctas > 0
               THEN << octasToCode(midOctas) \o " at "
                       \o JsString(altitudes.altitudeMid) \o " feet" >>
               ELSE << >>
        midShort == IF midOctas > 0
                    THEN << octasToCodeShort(midOctas) \o " "
                            \o JsString(altitudes.altitudeMid) \o "ft" >>
                    ELSE << >>
        high == IF highOctas > 0
                THEN << octasToCode(highOctas) \o " at "
                        \o JsString(altitudes.altitudeHigh) \o " feet" >>
                ELSE << >>
        highShort == IF highOctas > 0
                     THEN << octasToCodeShort(highOctas) \o " "
                             \o JsString(altitudes.altitudeHigh) \o "ft" >>
                     ELSE << >>
        cloudLayers == low \o mid \o high
        cloudLayersShort == lowShort \o midShort \o highShort
    IN  IF Len(cloudLayers) = 0
        THEN [clouds |-> List(<< "SKY CLEAR" >>), clouds_short |-> List(<< "SKC" >>)]
        ELSE [clouds |-> List(cloudLayers), clouds_short |-> List(cloudLayersShort)]

\* parseFloat(x.toFixed(1)) of the number that is m hundred-thousandths
ToFixed1(m) ==
    IF m >= 0 THEN Unscaled(((m + 5000) \div 10000) * 10000)
    ELSE Unscaled(0 - (((0 - m) + 5000) \div 10000) * 10000)

\* arithmetic on a payload value gives NaN unless it is a number or null
Numeric(x) == x.k \in {"num", "real", "null"}

\* Infinity, and timeDiff < minTimeDiff for a number timeDiff
Infinity == [k |-> "Infinity"]
Below(timeDiff, minTimeDiff) == minTimeDiff = Infinity \/ timeDiff < minTimeDiff.v

\* data.ts.forEach of fetchWindyData, from the 0-based `index` on
RECURSIVE closestIndexFrom(_, _, _, _, _)
closestIndexFrom(ts, nowMs, index, minTimeDiff, closestIndex) ==
    IF index >= Len(ts) THEN closestIndex
    ELSE LET timeDiff == Abs(nowMs - ts[index + 1])
         IN  IF Below(timeDiff, minTimeDiff)
             THEN closestIndexFrom(ts, nowMs, index + 1, Num(timeDiff), index)
             ELSE closestIndexFrom(ts, nowMs, index + 1, minTimeDiff, closestIndex)

\* closestIndex of fetchWindyData after the loop over data.ts: the 0-based
\* index of the forecast step, -1 for an empty series
closestIndex(ts, nowMs) == closestIndexFrom(ts, nowMs, 0, Infinity, 0 - 1)

\* convertToAtisTime(isoString) of parseWindyForecast: HHMM of the ISO string
\* of an instant, null without one
convertToAtisTimeWindy(isoString) ==
    IF isoString.k # "date" THEN Null
    ELSE Str(Pad2(isoString.h) \o Pad2(isoString.m))

\* parseWindyForecast(windyData), the argument written `payload`
parseWindyForecast(payload) ==
    IF ~Truthy(payload) \/ ~Truthy(Get(payload, "temp-surface")) THEN EmptyObject
    ELSE
    LET wind == uvToWind(Get(payload, "wind_u-surface"), Get(payload, "wind_v-surface"))
        temp == Get(payload, "temp-surface")
        dewpoint == Get(payload, "dewpoint-surface")
        pressure == Get(payload, "pressure-surface")
        gust == Get(payload, "gust-surface")
        past3hprecip == Get(payload, "past3hprecip-surface")
        \* KELVIN_OFFSET = 273.15
        tempC == IF Numeric(temp) THEN ToFixed1(Scaled(temp) - 27315000) ELSE NaN
        dewPointC == IF Numeric(dewpoint) THEN ToFixed1(Scaled(dewpoint) - 27315000)
                     ELSE NaN
        \* PA_TO_HPA = 0.01
        qnhHpa == CASE pressure.k = "num" -> pressure.v * 1000
                    [] pressure.k = "real" -> pressure.v \div 100
                    [] OTHER -> 0
        qnh == IF Numeric(pressure) THEN ToFixed1(qnhHpa) ELSE NaN
        \* MPS_TO_KNOTS = 1.94384; the product is taken on the whole m/s and on
        \* the thousandths, to stay within 32 bits
        gustKnots == IF Numeric(gust)
                     THEN Unscaled((Scaled(gust) \div 100000) * 194384
                                   + (((Scaled(gust) % 100000) \div 100) * 194384) \div 1000)
                     ELSE NaN
        \* (windyData['past3hprecip-surface'] || 0) * 1000
        precipMm == IF Truthy(past3hprecip) THEN Scaled(past3hprecip) * 1000 ELSE 0
        atisTime == convertToAtisTimeWindy(Get(payload, "timestampUTC"))
        cloudsLayers == mapWindyCloudsToOctas(Get(payload, "lclouds-surface"),
                                              Get(payload, "mclouds-surface"),
                                              Get(payload, "hclouds-surface"), qnh)
    IN  Obj([wind_direction |-> wind.direction,
             wind_speed |-> MathRound(wind.speed),
             gust_direction |-> wind.direction,
             gust_speed |-> MathRound(gustKnots),
             wind_vrb |-> Null,
             temperature |-> tempC,
             dew_point |-> dewPointC,
             qnh |-> qnh,
             prec |-> IF precipMm > 0 THEN MathRound(ToFixed1(precipMm)) ELSE Num(0),
             observationTime |-> atisTime,
             lClouds_percent |-> Get(payload, "lclouds-surface"),
             mClouds_percent |-> Get(payload, "mclouds-surface"),
             hClouds_percent |-> Get(payload, "hclouds-surface"),
             clouds |-> cloudsLayers.clouds,
             clouds_short |-> cloudsLayers.clouds_short,
             ptype |-> Get(payload, "ptype-surface")])

\* what parseWindyForecast returns for a forecast step with wind from 350 at
\* 5 kt, gusts 9 kt, no cloud in any layer and no precipitation
WindySnapshot ==
    Obj([wind_direction |-> Num(350), wind_speed |-> Num(5),
         gust_direction |-> Num(350), gust_speed |-> Num(9), wind_vrb |-> Null,
         temperature |-> Num(15), dew_point |-> Num(8), qnh |-> Num(1013),
         prec |-> Num(0), observationTime |-> Str("1200"),
         lClouds_percent |-> Num(0), mClouds_percent |-> Num(0),
         hClouds_percent |-> Num(0), clouds |-> List(<<"SKY CLEAR">>),
         clouds_short |-> List(<<"SKC">>), ptype |-> Num(0)])

\* fetchWindyData(apikey): null on a failed fetch, a non-ok response or any
\* exception, and the parsed forecast otherwise
WindyOutcomes == {Null, WindySnapshot}

----------------------------------------------------------------------------
(* aemet.js: the agency provider *)

CONVERSION_FACTOR == 194384

\* convertMpsToKnots(metersPerSecond): knots, not rounded
convertMpsToKnots(metersPerSecond) ==
    IF metersPerSecond.k = "num" THEN Real(metersPerSecond.v * CONVERSION_FACTOR)
    ELSE NaN

\* convertToAtisTime(isoTimeString) of aemet.js
convertToAtisTimeIso(isoTimeString) ==
    IF isoTimeString.k # "date" THEN Str("Invalid Time Format")
    ELSE Str(Pad2(isoTimeString.h) \o ":" \o Pad2(isoTimeString.m) \o " Z")

\* description.includes(searchString)
includes(description, searchString) ==
    \E i \in 1..(Len(description) - Len(searchString) + 1) :
        SubSeq(description, i, i + Len(searchString) - 1) = searchString

\* mapAemetToOctasAndPhenomenon(aemetDescription), for a description already
\* in lower case and trimmed
mapAemetToOctasAndPhenomenon(aemetDescription) ==
    LET description == aemetDescription
        octas ==
            IF includes(description, "despejado") THEN [sky |-> Num(0), phenomenon |-> Null]
            ELSE IF includes(description, "poco nuboso")
            THEN [sky |-> Num(2), phenomenon |-> Null]
            ELSE IF includes(description, "nubes altas")
            THEN [sky |-> Num(1), phenomenon |-> Str("High Clouds")]
            ELSE IF includes(description, "intervalos nubosos")
            THEN [sky |-> Num(4), phenomenon |-> Null]
            ELSE IF includes(description, "nuboso") THEN [sky |-> Num(6), phenomenon |-> Null]
            ELSE IF includes(description, "muy nuboso")
            THEN [sky |-> Num(7), phenomenon |-> Null]
            ELSE IF includes(description, "cubierto") THEN [sky |-> Num(8), phenomenon |-> Null]
            ELSE [sky |-> Null, phenomenon |-> Null]
        overridden ==
            IF includes(description, "lluvia") \/ includes(description, "llovizna")
            THEN [octas EXCEPT !.phenomenon = Str("Rain")]
            ELSE IF includes(description, "nieve")
            THEN [octas EXCEPT !.phenomenon = Str("Snow")]
            ELSE IF includes(description, "tormenta")
            THEN [octas EXCEPT !.phenomenon = Str("Thunderstorm")]
            ELSE IF includes(description, "niebla")
            THEN [sky |-> Num(8), phenomenon |-> Str("Fog")]
            ELSE IF includes(description, "bruma")
            THEN [sky |-> Num(8), phenomenon |-> Str("Mist / Haze")]
            ELSE IF includes(description, "calima")
            THEN [sky |-> Num(0), phenomenon |-> Str("Calima (Dust/Sand Haze)")]
            ELSE octas
    IN  IF overridden.sky = Null
        THEN [sky |-> Num(0), phenomenon |-> Str("Unknown")]
        ELSE overridden

\* the prediction getSkyState holds after the hours of one day, from the
\* 1-based position i on; the timestamp of a prediction is its day's date at
\* parseInt(periodo):00, counted in hours
RECURSIVE skyStateHours(_, _, _, _, _)
skyStateHours(day, i, nowTimestamp, minTimeDiff, closestPrediction) ==
    IF i > Len(day.estadoCielo) THEN << minTimeDiff, closestPrediction >>
    ELSE LET prediction == day.estadoCielo[i]
             hour == prediction.periodo
             predictionTimestamp == day.fecha * 24 + hour
             timeDiff == Abs(nowTimestamp - predictionTimestamp)
         IN  IF Below(timeDiff, minTimeDiff)
             THEN skyStateHours(day, i + 1, nowTimestamp, Num(timeDiff),
                                [day |-> day.fecha, hour |-> hour,
                                 skyDescription |-> prediction.descripcion])
             ELSE skyStateHours(day, i + 1, nowTimestamp, minTimeDiff, closestPrediction)

\* the loop of getSkyState over the days, from the 1-based position d on
RECURSIVE skyStateDays(_, _, _, _, _)
skyStateDays(days, d, nowTimestamp, minTimeDiff, closestPrediction) ==
    IF d > Len(days) THEN closestPrediction
    ELSE LET after == skyStateHours(days[d], 1, nowTimestamp, minTimeDiff,
                                    closestPrediction)
         IN  skyStateDays(days, d + 1, nowTimestamp, after[1], after[2])

\* closestPrediction of getSkyState(aemetData, reportData) after the loops:
\* null when there is no hourly prediction
closestPrediction(days, nowTimestamp) == skyStateDays(days, 1, nowTimestamp, Infinity, Null)

\* observationData.reduce of findClosestObservation with the test <=, from
\* the 1-based position i on
RECURSIVE findClosestObservation_lastFrom(_, _, _, _)
findClosestObservation_lastFrom(observationData, now, i, closest) ==
    IF i > Len(observationData) THEN closest
    ELSE LET current == observationData[i]
         IN  findClosestObservation_lastFrom(observationData, now, i + 1,
                 IF Abs(now - current.fint) <= Abs(now - closest.fint)
                 THEN current ELSE closest)

\* findClosestObservation keeping the last record at the least distance
findClosestObservation_last(observationData, now) ==
    IF Len(observationData) = 0 THEN Undefined
    ELSE findClosestObservation_lastFrom(observationData, now, 1, observationData[1])

\* observationData.reduce of findClosestObservation, from the 1-based
\* position i on
RECURSIVE findClosestObservationFrom(_, _, _, _)
findClosestObservationFrom(observationData, now, i, closest) ==
    IF i > Len(observationData) THEN closest
    ELSE LET current == observationData[i]
             currentTimeDiff == Abs(now - current.fint)
             closestTimeDiff == Abs(now - closest.fint)
         IN  findClosestObservationFrom(observationData, now, i + 1,
                 IF currentTimeDiff < closestTimeDiff THEN current ELSE closest)

\* findClosestObservation(observationData): the reduce starts from
\* observationData[0], undefined for an empty array
findClosestObservation(observationData, now) ==
    IF Len(observationData) = 0 THEN Undefined
    ELSE findClosestObservationFrom(observationData, now, 1, observationData[1])

\* getLatestObservationData(observationData, reportData), given the record
\* findClosestObservation selected: reportData after the call
getLatestObservationData(latestObservation, reportData) ==
    LET r1 == Put(reportData, "wind_direction", Get(latestObservation, "dv"))
        r2 == Put(r1, "wind_speed", convertMpsToKnots(Get(latestObservation, "vv")))
        r3 == Put(r2, "gust_direction", Get(latestObservation, "dmax"))
        r4 == Put(r3, "gust_speed", convertMpsToKnots(Get(latestObservation, "vmax")))
        r5 == IF Truthy(Get(latestObservation, "vis"))
              THEN Put(r4, "visibility", Get(latestObservation, "vis")) ELSE r4
        r6 == Put(r5, "temperature", Get(latestObservation, "ta"))
        r7 == IF Truthy(Get(latestObservation, "tpr"))
              THEN Put(r6, "dew_point", Get(latestObservation, "tpr")) ELSE r6
        r8 == IF Truthy(Get(latestObservation, "pres_nmar"))
              THEN Put(r7, "qnh", Get(latestObservation, "pres_nmar")) ELSE r7
        r9 == Put(r8, "prec", Get(latestObservation, "prec"))
    IN  Put(r9, "observationTime",
            convertToAtisTimeIso(Get(latestObservation, "fint")))

\* processAemetData(predictionData, observationDataVado, observationDataGuada)
\* for an empty prediction array (getSkyState returns at once)
processAemetData(vado, guada) ==
    getLatestObservationData(vado,
        getLatestObservationData(guada, Obj([time |-> Str("1200")])))

\* the Guadalajara station record closest to now
GuadaRecord ==
    Obj([dv |-> Num(170), vv |-> Num(3), dmax |-> Num(180), vmax |-> Num(5),
         vis |-> Num(12), ta |-> Num(19), tpr |-> Num(9), pres_nmar |-> Num(1015),
         prec |-> Num(0), fint |-> Date(12, 1)])

\* the Pantano del Vado station record closest to now: with its wind sensor
\* reporting, at each observation minute, and without wind values
VadoRecords ==
    { Obj([dv |-> Num(180), vv |-> Num(4), dmax |-> Num(190), vmax |-> Num(6),
           ta |-> Num(20), prec |-> Num(0), fint |-> Date(12, t)]) : t \in ObsMinutes }
    \cup { Obj([ta |-> Num(20), prec |-> Num(0), fint |-> Date(12, 1)]) }

\* fetchAemetJson: the error thrown on a non-ok response
AemetFetchError == Throw("AEMET Initial API call failed with status: 500")

\* getFormattedAtisData(apiKey): what the call resolves to, or the error it
\* rejects with
AemetOutcomes ==
    {AemetFetchError} \cup { processAemetData(vado, GuadaRecord) : vado \in VadoRecords }

----------------------------------------------------------------------------
(* robleEMA.js: the local-station provider *)

\* directionToDegrees(direction)
directionToDegrees(direction) ==
    CASE direction = "N" -> 360 [] direction = "E" -> 90
      [] direction = "S" -> 180 [] direction = "O" -> 270
      [] direction = "NE" -> 45 [] direction = "SE" -> 135
      [] direction = "SO" -> 225 [] direction = "NO" -> 315
      [] direction = "NNE" -> 22 [] direction = "ENE" -> 67
      [] direction = "ESE" -> 112 [] direction = "SSE" -> 157
      [] direction = "SSO" -> 202 [] direction = "OSO" -> 247
      [] direction = "ONO" -> 292 [] direction = "NNO" -> 337
      [] direction = "VRB" -> 0
      [] OTHER -> 0

\* convertKmhToKnots(speedKmh) for whole km/h: Math.round(speedKmh * 0.539957)
convertKmhToKnots(speedKmh) ==
    IF speedKmh < 0 THEN 0 ELSE (speedKmh * 539957 + 500000) \div 1000000

\* a date/time string "YYYY-MM-DD HH:MM:SS" whose six components parse: the
\* civil day it names (a winter day, the last Sunday of March, a summer day)
\* and its hour and minute
LocalTime(day, h, m) == [k |-> "local", day |-> day, h |-> h, m |-> m]

\* the zone names Intl.DateTimeFormat accepts, of those handed to the function
KnownZones == {Str("Europe/Madrid"), Str("UTC")}

\* hours the zone is ahead of UTC at the instant utcHour:00 UTC of the day;
\* Europe/Madrid goes from +1 to +2 at 01:00 UTC on the last Sunday of March
ZoneOffsetAt(timeZoneIANA, day, utcHour) ==
    IF timeZoneIANA # Str("Europe/Madrid") THEN 0
    ELSE CASE day = "winter" -> 1
           [] day = "summer" -> 2
           [] OTHER -> IF utcHour >= 1 THEN 2 ELSE 1

\* getATISTimeFromLocalTime without its try/catch: what is thrown escapes
getATISTimeFromLocalTime_noCatch(dateString, timeZoneIANA) ==
    IF ~Truthy(dateString) \/ ~Truthy(timeZoneIANA) THEN Str("Invalid Date")
    ELSE IF dateString.k # "local" THEN Throw("Initial date parsing failed.")
    ELSE IF timeZoneIANA \notin KnownZones
         THEN Throw("Invalid time zone specified: " \o timeZoneIANA.v)
    ELSE Str(Pad2((dateString.h
                   + ZoneOffsetAt(timeZoneIANA, dateString.day, dateString.h)) % 24)
             \o ":" \o Pad2(dateString.m) \o "Z")

\* getATISTimeFromLocalTime(dateString, timeZoneIANA) on a host whose clock is
\* UTC: new Date(parts...) takes the wall clock as a UTC instant,
\* formatterLocal.format renders that instant in the zone, new Date(string)
\* reads the rendering back as UTC, and its UTC hour and minute are returned;
\* whatever is thrown inside the try block is answered with "Invalid Date"
getATISTimeFromLocalTime(dateString, timeZoneIANA) ==
    IF ~Truthy(dateString) \/ ~Truthy(timeZoneIANA) THEN Str("Invalid Date")
    ELSE LET attempt ==
                 IF dateString.k # "local" THEN Throw("Initial date parsing failed.")
                 ELSE IF timeZoneIANA \notin KnownZones
                      THEN Throw("Invalid time zone specified: " \o timeZoneIANA.v)
                 ELSE LET finalHours ==
                              (dateString.h
                               + ZoneOffsetAt(timeZoneIANA, dateString.day, dateString.h)) % 24
                      IN  Str(Pad2(finalHours) \o ":" \o Pad2(dateString.m) \o "Z")
         IN  IF attempt.k = "throw" THEN Str("Invalid Date") ELSE attempt

\* convertToAtisTime(rawTimeString) of robleEMA.js
convertToAtisTimeLocal(rawTimeString) ==
    IF ~Truthy(rawTimeString) THEN Str("Time Unavailable")
    ELSE getATISTimeFromLocalTime(rawTimeString, Str("Europe/Madrid"))

\* parseCleanConditions(rawText), by what each regular expression matched in
\* the page: page.time, page.temp, page.wind, page.qnh (Null: no match)
parseCleanConditions(page) ==
    LET t == IF page.time.k = "local"
             THEN Obj([observationTime_raw |-> Str("raw"),
                       observationTime |-> convertToAtisTimeLocal(page.time)])
             ELSE Obj([observationTime_raw |-> Null])
        t2 == Put(t, "temperature", page.temp)
        w == IF page.wind.k = "wind"
             THEN Put(Put(Put(t2, "wind_speed", Num(convertKmhToKnots(page.wind.kmh))),
                          "wind_direction_text", Str(page.wind.dir)),
                      "wind_direction", Num(directionToDegrees(page.wind.dir)))
             ELSE Put(Put(t2, "wind_speed", Null), "wind_direction", Null)
        q == Put(w, "qnh", page.qnh)
    IN  Put(Put(q, "sunrise", Null), "sunset", Null)

\* the station page as updated at 12:01 local summer time, and a page on which
\* no field is recognised
LermPages ==
    { [time |-> LocalTime("summer", 12, 1), temp |-> Num(22),
        wind |-> [k |-> "wind", kmh |-> 10, dir |-> "N"], qnh |-> Num(1016)],
      [time |-> Null, temp |-> Null, wind |-> Null, qnh |-> Null] }

\* the record returned when the fetch fails or the data block is not found
LermError == Obj([error |-> Str("Failed to retrieve external data: HTTP error! Status: 500")])

\* fetchAndParseLERMConditions(): what the call resolves to (it never rejects)
LermOutcomes == {LermError} \cup { parseCleanConditions(page) : page \in LermPages }

----------------------------------------------------------------------------
(* atis.js: identifier rotation and report formatting *)

ATIS_IDENTIFIERS ==
    << "ALPHA", "BRAVO", "CHARLIE", "DELTA", "ECHO", "FOXTROT", "GOLF", "HOTEL",
       "INDIA", "JULIET", "KILO", "LIMA", "MIKE", "NOVEMBER", "OSCAR", "PAPA",
       "QUEBEC", "ROMEO", "SIERRA", "TANGO", "UNIFORM", "VICTOR", "WHISKEY",
       "XRAY", "YANKEE", "ZULU" >>

\* ATIS_IDENTIFIERS[index], the array being 0-based in the source
IdentifierAt(index) == ATIS_IDENTIFIERS[index + 1]

\* the index starting at the first element instead of the last
InitialIdentifierIndex_first == Len(ATIS_IDENTIFIERS) - Len(ATIS_IDENTIFIERS)

\* let currentIdentifierIndex = ATIS_IDENTIFIERS.length - 1
InitialIdentifierIndex == Len(ATIS_IDENTIFIERS) - 1

\* getNextIdentifier stepping over one code
getNextIdentifier_skip(index) == (index + 2) % Len(ATIS_IDENTIFIERS)

\* getNextIdentifier(): the new value of currentIdentifierIndex
getNextIdentifier(index) == (index + 1) % Len(ATIS_IDENTIFIERS)

\* the rotation step taking every observationTime for a new one
rotateIdentifier_always(observationTime, index, last) ==
    LET newIndex == getNextIdentifier(index)
    IN  [isNewData |-> TRUE, index |-> newIndex, last |-> observationTime,
         currentIdentifier |-> IdentifierAt(newIndex)]

\* the rotation step without the update of LAST_BROADCAST_TIME
rotateIdentifier_noRecord(observationTime, index, last) ==
    LET isNewData == ~StrictEq(observationTime, last)
        newIndex == IF isNewData THEN getNextIdentifier(index) ELSE index
    IN  [isNewData |-> isNewData, index |-> newIndex, last |-> last,
         currentIdentifier |-> IdentifierAt(newIndex)]

\* formatReportForATIS, "1. Identifier Management": the comparison with
\* LAST_BROADCAST_TIME and the update of the two module variables, which run
\* without an await between them
rotateIdentifier(observationTime, index, last) ==
    LET isNewData == ~StrictEq(observationTime, last)
        newIndex == IF isNewData THEN getNextIdentifier(index) ELSE index
    IN  [isNewData |-> isNewData, index |-> newIndex,
         last |-> IF isNewData THEN observationTime ELSE last,
         currentIdentifier |-> IdentifierAt(newIndex)]

\* array.join(sep)
RECURSIVE Join(_, _)
Join(q, sep) ==
    IF Len(q) = 0 THEN ""
    ELSE IF Len(q) = 1 THEN q[1]
    ELSE q[1] \o sep \o Join(Tail(q), sep)

\* the TypeError of reportData.clouds.join when clouds is null
CloudsJoinError == Throw("Cannot read properties of null (reading 'join')")

\* formatReportForATIS(reportData), after the rotation step: the object it
\* returns, or the error it throws
formatReportFields(reportData, currentIdentifier) ==
    IF reportData["clouds"].k # "list" \/ reportData["clouds_short"].k # "list"
    THEN CloudsJoinError
    ELSE Obj([airport_name |-> Str("LERM"),
              identifier |-> Str(currentIdentifier),
              time_zulu |-> reportData["observationTime"],
              wind_direction |-> reportData["wind_direction"],
              wind_dir_f |-> Str(PadStart3(reportData["wind_direction"])),
              wind_speed |-> reportData["wind_speed"],
              wind_vrb |-> reportData["wind_vrb"],
              gust_direction |-> reportData["gust_direction"],
              gust_dir_f |-> Str(PadStart3(reportData["gust_direction"])),
              gust_speed |-> MathRound(reportData["gust_speed"]),
              visibility |-> reportData["visibility"],
              clouds |-> Str(Join(reportData["clouds"].v, ", ")),
              clouds_short |-> Str(Join(reportData["clouds_short"].v, "\t\n")),
              phen |-> Str(IF Truthy(reportData["phenomenon"])
                              /\ reportData["phenomenon"] \notin {Str("Clear"), Str("Unknown")}
                           THEN toUpperCase(reportData["phenomenon"].v) ELSE ""),
              temperature |-> Str(JsString(MathRound(reportData["temperature"]))),
              dew_point |-> Str(JsString(MathRound(reportData["dew_point"]))),
              altimeter |-> Str("QNH " \o JsString(MathRound(reportData["qnh"]))),
              runways_in_use |-> Str(determineActiveRunway(reportData["wind_direction"])),
              special_info |-> Null])

\* the acknowledgment phrase naming a fixed identifier
acknowledgment_fixed(data) == "CONFIRM ATIS INFO ALPHA ON INITIAL CONTACT"

\* this.acknowledgment of the ATISReport constructor
acknowledgment(data) ==
    "CONFIRM ATIS INFO " \o toUpperCase(data.v["identifier"].v) \o " ON INITIAL CONTACT"

\* report_parts of get_full_report(), for the fields `data` of the report
report_parts(data) ==
    LET this == data.v
        wind_gust == IF Greater(this["gust_speed"], 0)
                     THEN "Gusting " \o JsString(this["gust_dir_f"]) \o " at "
                          \o JsString(this["gust_speed"]) \o " knots"
                     ELSE ""
        wind_vrb == IF Truthy(this["wind_vrb"])
                    THEN replace(replace("Variable from " \o JsString(this["wind_vrb"]),
                                         "/", " to "), "VRB ", "")
                    ELSE ""
        visibility == "Visibility " \o JsString(this["visibility"]) \o " kilometers\n"
        vis_clouds ==
            IF Greater(this["visibility"], 10) /\ this["clouds"] = Str("SKY CLEAR")
            THEN "CAVOK\n"
            ELSE IF this["clouds"] = Str("SKY CLEAR")
            THEN IF Truthy(this["phen"])
                 THEN visibility \o this["phen"].v \o "\n" \o this["clouds"].v \o "\n"
                 ELSE visibility \o "Clouds " \o this["clouds"].v \o "\n"
            ELSE IF Truthy(this["phen"])
                 THEN visibility \o this["phen"].v \o "\nClouds " \o this["clouds"].v \o "\n"
                 ELSE visibility \o "Clouds " \o this["clouds"].v \o "\n"
    IN  << this["airport_name"].v \o " Terminal Information " \o this["identifier"].v \o ".\n",
           replace("Time " \o JsString(this["time_zulu"]) \o "\n", "Z", " Zulu."),
           "Visual Approach. Runway in use: " \o this["runways_in_use"].v
               \o ". Transition level 140.\n",
           "Frequency 123.325\n",
           "Wind " \o this["wind_dir_f"].v \o " at " \o JsString(this["wind_speed"])
               \o " knots. " \o wind_gust \o ". " \o wind_vrb \o "\n",
           vis_clouds,
           "Temperature " \o this["temperature"].v \o " degrees Celsius, dew point "
               \o this["dew_point"].v \o " degrees Celsius.\n",
           this["altimeter"].v \o ".\n" >>
        \o (IF Truthy(this["special_info"]) THEN << JsString(this["special_info"]) \o "." >>
            ELSE << >>)
        \o << acknowledgment(data) \o "." >>

\* get_full_report()
get_full_report(data) == Join(report_parts(data), " ")

\* datis_lines of get_datis_report()
datis_lines(data) ==
    LET this == data.v
        identifierUpper == toUpperCase(this["identifier"].v)
        vis_clouds ==
            IF Greater(this["visibility"], 10) /\ this["clouds"] = Str("SKY CLEAR")
            THEN "CAVOK"
            ELSE IF Truthy(this["phen"])
            THEN "VIS " \o JsString(this["visibility"]) \o " KM\n" \o this["phen"].v
                 \o "\nClouds " \o this["clouds_short"].v
            ELSE "VIS " \o JsString(this["visibility"]) \o " KM\nClouds "
                 \o this["clouds_short"].v
        wind_gust == IF Greater(this["gust_speed"], 0)
                     THEN JsString(this["gust_dir_f"]) \o "/" \o JsString(this["gust_speed"])
                     ELSE ""
    IN  << replace("LERM ATIS INFORMATION " \o identifierUpper \o " "
                   \o JsString(this["time_zulu"]), ":", ""),
           "VFR APP RWY " \o toUpperCase(this["runways_in_use"].v) \o " TL 140",
           "FREQ 123.325",
           "WIND " \o this["wind_dir_f"].v \o "/" \o JsString(this["wind_speed"]) \o " "
               \o wind_gust \o " " \o JsString(this["wind_vrb"]),
           vis_clouds,
           "TEMP/DP " \o replace(toUpperCase(this["temperature"].v), " ", "") \o "/"
               \o replace(toUpperCase(this["dew_point"].v), " ", ""),
           this["altimeter"].v >>
        \o (IF Truthy(this["special_info"])
            THEN << "REMARKS: " \o toUpperCase(JsString(this["special_info"])) >>
            ELSE << >>)
        \o << toUpperCase(acknowledgment(data)) >>

\* get_datis_report()
get_datis_report(data) == Join(datis_lines(data), "\n")

\* new ATISReport(data) with get_full_report() and get_datis_report(): the
\* parts of the two texts that carry the identifier and the time
ATISReport(data) ==
    [fullReport |-> [identifier |-> data.v["identifier"].v,
                     time_zulu |-> data.v["time_zulu"],
                     acknowledgment |-> acknowledgment(data)],
     datisReport |-> [identifier |-> data.v["identifier"].v,
                      time_zulu |-> data.v["time_zulu"],
                      acknowledgment |-> acknowledgment(data)]]

----------------------------------------------------------------------------
(* atis.js: onRequest *)

\* context.env of a request: each secret bound or not
Envs ==
    { Obj([AEMET_API_KEY |-> a, WINDY_API_KEY |-> w]) :
        a \in {Str("aemet-key"), Undefined}, w \in {Str("windy-key"), Undefined} }

\* new Response(text, { status: 500 }) of the two configuration checks
ConfigErrorResponse(secret) ==
    [k |-> "response", status |-> 500,
     body |-> Str("Configuration Error: " \o secret \o " secret is missing."),
     failed |-> {}]

\* the configuration checks with the second one left out
configurationError_aemetOnly(env) ==
    IF ~Truthy(Get(env, "AEMET_API_KEY")) THEN ConfigErrorResponse("AEMET_API_KEY")
    ELSE Null

\* the two checks that open onRequest: the Response returned, or Null when
\* both secrets are bound
configurationError(env) ==
    IF ~Truthy(Get(env, "AEMET_API_KEY")) THEN ConfigErrorResponse("AEMET_API_KEY")
    ELSE IF ~Truthy(Get(env, "WINDY_API_KEY")) THEN ConfigErrorResponse("WINDY_API_KEY")
    ELSE Null

\* the catch block answering with the default status
catchError_defaultStatus(error, failed) ==
    [k |-> "response", status |-> 200,
     body |-> [fullReport |-> Str("SERVER ERROR: " \o error.v),
               datisReport |-> Str("SERVER ERROR: " \o error.v)],
     failed |-> failed]

\* the catch block of onRequest: the Response built from the caught error.
\* failed (bookkeeping, not in the source) names the providers whose fetch
\* had failed in this generation
catchError(error, failed) ==
    [k |-> "response", status |-> 500,
     body |-> [fullReport |-> Str("SERVER ERROR: " \o error.v),
               datisReport |-> Str("SERVER ERROR: " \o error.v)],
     failed |-> failed]

\* the Response carrying the two reports (its raw provider records are not kept)
reportResponse(report, failed) ==
    [k |-> "response", status |-> 200,
     body |-> [fullReport |-> report.fullReport, datisReport |-> report.datisReport],
     failed |-> failed]

\* the forecast merge put off until later
mergeWindy_deferred(report, data) == report

\* weatherReport.mergeData(windyData), run when fetchWindyData has settled
mergeWindy(report, data) == mergeData(report, data)

\* weatherReport.mergeData(aemetData), run when getFormattedAtisData has settled
mergeAemet(report, data) == mergeData(report, data)

\* lines 231-232 in the other order: the station merged first, wind_vrb
\* computed afterwards
mergeLerm_mergeFirst(report, data) ==
    LET merged == mergeData(report, data)
    IN  [merged EXCEPT !["wind_vrb"] =
            getVRBWind(merged["wind_direction"], Get(data, "wind_direction"))]

\* lines 231-232: wind_vrb from the bearing held so far and the station's,
\* then weatherReport.mergeData(LERMData)
mergeLerm(report, data) ==
    mergeData([report EXCEPT !["wind_vrb"] =
                   getVRBWind(report["wind_direction"], Get(data, "wind_direction"))],
              data)

\* merge while no stand-alone mergeData run is under way
MergeOff == [stage |-> "off"]

InFlight == {"fetchWindyData", "getFormattedAtisData", "fetchAndParseLERMConditions"}

Init ==
    /\ currentIdentifierIndex = InitialIdentifierIndex
    /\ LAST_BROADCAST_TIME = Null
    /\ pc = [p \in Invocations |-> "idle"]
    /\ context = [p \in Invocations |-> Null]
    /\ weatherReport = [p \in Invocations |-> Null]
    /\ windyData = [p \in Invocations |-> Null]
    /\ aemetData = [p \in Invocations |-> Null]
    /\ response = Null
    /\ rot = Null
    /\ merge = MergeOff

\* onRequest(context) up to its first await: the configuration checks, the
\* fresh WeatherReportData and the call of fetchWindyData
Start(p) ==
    /\ pc[p] = "idle"
    /\ \E env \in Envs :
          LET err == configurationError(env)
          IN  IF err # Null
              THEN /\ response' = err
                   /\ UNCHANGED << pc, context, weatherReport >>
              ELSE /\ response' = response
                   /\ pc' = [pc EXCEPT ![p] = "fetchWindyData"]
                   /\ context' = [context EXCEPT ![p] = env]
                   /\ weatherReport' = [weatherReport EXCEPT ![p] = NewWeatherReportData]
    /\ UNCHANGED << currentIdentifierIndex, LAST_BROADCAST_TIME, windyData,
                    aemetData, rot, merge >>

\* fetchWindyData settles: the forecast is merged and getFormattedAtisData called
WindySettles(p) ==
    /\ pc[p] = "fetchWindyData"
    /\ \E data \in WindyOutcomes :
          /\ windyData' = [windyData EXCEPT ![p] = data]
          /\ weatherReport' = [weatherReport EXCEPT ![p] = mergeWindy(weatherReport[p], data)]
    /\ pc' = [pc EXCEPT ![p] = "getFormattedAtisData"]
    /\ UNCHANGED << currentIdentifierIndex, LAST_BROADCAST_TIME, context, aemetData,
                    response, rot, merge >>

\* getFormattedAtisData settles: a rejection goes to the catch block, a value
\* is merged and fetchAndParseLERMConditions called
AemetSettles(p) ==
    /\ pc[p] = "getFormattedAtisData"
    /\ \E data \in AemetOutcomes :
          IF data.k = "throw"
          THEN /\ response' = catchError(data,
                     {"aemet"} \cup (IF windyData[p] = Null THEN {"windy"} ELSE {}))
               /\ pc' = [pc EXCEPT ![p] = "idle"]
               /\ context' = [context EXCEPT ![p] = Null]
               /\ weatherReport' = [weatherReport EXCEPT ![p] = Null]
               /\ windyData' = [windyData EXCEPT ![p] = Null]
               /\ aemetData' = aemetData
          ELSE /\ aemetData' = [aemetData EXCEPT ![p] = data]
               /\ weatherReport' = [weatherReport EXCEPT ![p] = mergeAemet(weatherReport[p], data)]
               /\ pc' = [pc EXCEPT ![p] = "fetchAndParseLERMConditions"]
               /\ UNCHANGED << response, context, windyData >>
    /\ UNCHANGED << currentIdentifierIndex, LAST_BROADCAST_TIME, rot, merge >>

\* fetchAndParseLERMConditions settles: the rest of onRequest runs without
\* another await: variability, the station merge, formatReportForATIS (the
\* rotation, then the formatting, which may throw), the two reports, the Response
LermSettles(p) ==
    /\ pc[p] = "fetchAndParseLERMConditions"
    /\ \E data \in LermOutcomes :
          LET report == mergeLerm(weatherReport[p], data)
              r == rotateIdentifier(report["observationTime"],
                                    currentIdentifierIndex, LAST_BROADCAST_TIME)
              atisData == formatReportFields(report, r.currentIdentifier)
              failed == (IF windyData[p] = Null THEN {"windy"} ELSE {})
                        \cup (IF data = LermError THEN {"lerm"} ELSE {})
          IN  /\ currentIdentifierIndex' = r.index
              /\ LAST_BROADCAST_TIME' = r.last
              /\ rot' = [observationTime |-> report["observationTime"],
                         isNewData |-> r.isNewData,
                         currentIdentifier |-> r.currentIdentifier,
                         repeat |-> (rot # Null /\ rot.observationTime = report["observationTime"]),
                         overlapped |-> (\E q \in Invocations \ {p} : pc[q] \in InFlight)]
              /\ response' = IF atisData.k = "throw" THEN catchError(atisData, failed)
                             ELSE reportResponse(ATISReport(atisData), failed)
    /\ pc' = [pc EXCEPT ![p] = "idle"]
    /\ context' = [context EXCEPT ![p] = Null]
    /\ weatherReport' = [weatherReport EXCEPT ![p] = Null]
    /\ windyData' = [windyData EXCEPT ![p] = Null]
    /\ aemetData' = [aemetData EXCEPT ![p] = Null]
    /\ UNCHANGED merge

Next ==
    \E p \in Invocations :
        \/ Start(p)
        \/ WindySettles(p)
        \/ AemetSettles(p)
        \/ LermSettles(p)

Spec == Init /\ [][Next]_vars

\* requests keep arriving, every provider request settles, and the event loop
\* runs the continuation of every settled promise
FairSpec ==
    /\ Spec
    /\ \A p \in Invocations :
          /\ WF_vars(Start(p))
          /\ WF_vars(WindySettles(p))
          /\ WF_vars(AemetSettles(p))
          /\ WF_vars(LermSettles(p))

----------------------------------------------------------------------------
(* Stand-alone runs of mergeData: three partial snapshots merged in the     *)
(* order of onRequest (forecast, agency, local station) into a fresh       *)
(* WeatherReportData, and an all-absent source merged into the result.     *)

\* partial snapshots a caller may hand to mergeData
PartialSnapshots ==
    { Obj([wind_speed |-> Num(5)]),
      Obj([wind_speed |-> Num(8), temperature |-> Num(20)]),
      Obj([temperature |-> Num(22)]),
      Obj([wind_speed |-> Null, temperature |-> Null, qnh |-> Num(1013)]),
      Obj([wind_speed |-> Undefined, error |-> Str("Invalid input text.")]),
      EmptyObject,
      Null }

\* sources with nothing to contribute: all fields null, {}, and non-objects
AbsentSnapshots ==
    { Obj([key \in Fields |-> Null]), EmptyObject, Null, Undefined }

MergeInit ==
    /\ merge \in [stage : {"start"}, report : {NewWeatherReportData},
                  forecast : PartialSnapshots, agency : PartialSnapshots,
                  station : PartialSnapshots, absent : AbsentSnapshots]
    /\ currentIdentifierIndex = InitialIdentifierIndex
    /\ LAST_BROADCAST_TIME = Null
    /\ pc = [p \in Invocations |-> "idle"]
    /\ context = [p \in Invocations |-> Null]
    /\ weatherReport = [p \in Invocations |-> Null]
    /\ windyData = [p \in Invocations |-> Null]
    /\ aemetData = [p \in Invocations |-> Null]
    /\ response = Null
    /\ rot = Null

\* weatherReport.mergeData(windyData), atis.js line 227
MergeForecast ==
    /\ merge.stage = "start"
    /\ merge' = [merge EXCEPT !.stage = "forecast",
                              !.report = mergeData(merge.report, merge.forecast)]
    /\ UNCHANGED pipelineVars

\* weatherReport.mergeData(aemetData), atis.js line 229
MergeAgency ==
    /\ merge.stage = "forecast"
    /\ merge' = [merge EXCEPT !.stage = "agency",
                              !.report = mergeData(merge.report, merge.agency)]
    /\ UNCHANGED pipelineVars

\* weatherReport.mergeData(LERMData), atis.js line 232
MergeStation ==
    /\ merge.stage = "agency"
    /\ merge' = [merge EXCEPT !.stage = "station",
                              !.report = mergeData(merge.report, merge.station)]
    /\ UNCHANGED pipelineVars

\* mergeData of a source with nothing to contribute, at any point of the fusion
MergeAbsent ==
    /\ merge.stage \in {"start", "forecast", "agency", "station"}
    /\ merge' = [merge EXCEPT !.stage = "absent",
                              !.report = mergeData(merge.report, merge.absent)]
    /\ UNCHANGED pipelineVars

MergeNext == MergeForecast \/ MergeAgency \/ MergeStation \/ MergeAbsent

MergeSpec == MergeInit /\ [][MergeNext]_vars

----------------------------------------------------------------------------
(* Direct calls of formatReportForATIS, on a fused snapshot whose           *)
(* observationTime is any value the field can hold                         *)

\* null as the WeatherReportData constructor leaves it, undefined, and the
\* strings of aemet.js convertToAtisTime
SnapshotTimes ==
    {Null, Undefined, Str("Invalid Time Format")}
    \cup { convertToAtisTimeIso(Date(12, t)) : t \in ObsMinutes }

\* formatReportForATIS(reportData): the rotation step and the identifier of
\* the object it returns
FormatReport ==
    /\ \E observationTime \in SnapshotTimes :
          LET r == rotateIdentifier(observationTime, currentIdentifierIndex,
                                    LAST_BROADCAST_TIME)
          IN  /\ currentIdentifierIndex' = r.index
              /\ LAST_BROADCAST_TIME' = r.last
              /\ rot' = [observationTime |-> observationTime,
                         isNewData |-> r.isNewData,
                         currentIdentifier |-> r.currentIdentifier,
                         repeat |-> (rot # Null /\ rot.observationTime = observationTime),
                         overlapped |-> FALSE]
    /\ UNCHANGED << pc, context, weatherReport, windyData, aemetData, response, merge >>

RotationSpec == Init /\ [][FormatReport]_vars

----------------------------------------------------------------------------
(* Properties *)

\* the Response carries the two rendered reports
IsReport(r) == r # Null /\ r.status = 200

\* invocation p returns from formatReportForATIS in this step
RotationStep(p) == pc[p] = "fetchAndParseLERMConditions" /\ pc'[p] = "idle"

\* C1: in every report generation, an observationTime equal to
\* LAST_BROADCAST_TIME keeps the identifier and leaves currentIdentifierIndex
\* and LAST_BROADCAST_TIME unchanged; a different observationTime advances the
\* index by exactly 1 modulo 26, records the observationTime and reports the
\* new code in both reports.
RotationPerGeneration ==
    [][\A p \in Invocations :
          RotationStep(p) =>
             LET observationTime == rot'.observationTime
             IN  /\ observationTime = LAST_BROADCAST_TIME =>
                       /\ currentIdentifierIndex' = currentIdentifierIndex
                       /\ LAST_BROADCAST_TIME' = LAST_BROADCAST_TIME
                       /\ rot'.currentIdentifier = IdentifierAt(currentIdentifierIndex)
                 /\ observationTime # LAST_BROADCAST_TIME =>
                       /\ currentIdentifierIndex' = (currentIdentifierIndex + 1) % 26
                       /\ currentIdentifierIndex = 25 => rot'.currentIdentifier = "ALPHA"
                       /\ LAST_BROADCAST_TIME' = observationTime
                       /\ rot'.currentIdentifier = IdentifierAt(currentIdentifierIndex')
                 /\ IsReport(response') =>
                       /\ response'.body.fullReport.identifier = rot'.currentIdentifier
                       /\ response'.body.datisReport.identifier = rot'.currentIdentifier
      ]_vars

\* a generation that met the observationTime of the one before it and kept BRAVO
RotationKeepsIdentifier ==
    /\ rot # Null /\ rot.repeat /\ ~rot.isNewData
    /\ rot.currentIdentifier = "BRAVO"
    /\ IsReport(response) /\ response.body.fullReport.identifier = "BRAVO"

Present(sourceObject, key) ==
    /\ sourceObject.k = "obj"
    /\ key \in DOMAIN sourceObject.v
    /\ sourceObject.v[key] # Null

\* the value of the highest-precedence source that has the field, else null
PrecedenceValue(key) ==
    IF Present(merge.station, key) THEN merge.station.v[key]
    ELSE IF Present(merge.agency, key) THEN merge.agency.v[key]
    ELSE IF Present(merge.forecast, key) THEN merge.forecast.v[key]
    ELSE Null

\* C3: after forecast, agency and station are merged in that order into a
\* fresh WeatherReportData, every declared field holds the value of the
\* highest-precedence source whose value is non-null, null if there is none;
\* {wind_speed: 5}, {wind_speed: 8, temperature: 20}, {temperature: 22}
\* give wind_speed 8 and temperature 22.
FusionPrecedence ==
    merge.stage = "station" =>
        /\ DOMAIN merge.report = Fields
        /\ \A key \in Fields : merge.report[key] = PrecedenceValue(key)
        /\ ( /\ merge.forecast = Obj([wind_speed |-> Num(5)])
             /\ merge.agency = Obj([wind_speed |-> Num(8), temperature |-> Num(20)])
             /\ merge.station = Obj([temperature |-> Num(22)]) )
           => /\ merge.report["wind_speed"] = Num(8)
              /\ merge.report["temperature"] = Num(22)

\* the three snapshots of the example, merged
FusionPrecedenceExample ==
    /\ merge.stage = "station"
    /\ merge.forecast = Obj([wind_speed |-> Num(5)])
    /\ merge.agency = Obj([wind_speed |-> Num(8), temperature |-> Num(20)])
    /\ merge.station = Obj([temperature |-> Num(22)])
    /\ merge.report["wind_speed"] = Num(8)
    /\ merge.report["temperature"] = Num(22)
    /\ merge.report["qnh"] = Null

\* C4: mergeData of an all-absent source (every field null, {}, or a
\* non-object) leaves every field of the snapshot unchanged.
FusionIdempotence ==
    [][(merge.stage # "off" /\ merge.stage # "absent" /\ merge'.stage = "absent") =>
          merge'.report = merge.report]_vars

\* an all-null source merged into a snapshot that holds values
FusionIdempotenceAllNull ==
    /\ merge.stage = "absent"
    /\ merge.absent = Obj([key \in Fields |-> Null])
    /\ merge.report["wind_speed"] = Num(8)
    /\ merge.report["temperature"] = Num(22)

\* C5 as stated: after the agency merge, a field the forecast had set is never
\* undefined or NaN: a station record lacking a value does not erase it.
ForecastSurvivesAgencyMerge ==
    \A p \in Invocations :
        pc[p] = "fetchAndParseLERMConditions" =>
            \A key \in Fields :
                mergeData(NewWeatherReportData, windyData[p])[key] # Null =>
                    weatherReport[p][key].k \notin {"undefined", "NaN"}

\* C6 as stated: when exactly one provider's fetch failed, onRequest returns
\* the two rendered reports, not an error.
SingleFailureStillReports ==
    (response # Null /\ Cardinality(response.failed) = 1) => response.status = 200

\* both secrets are bound in context.env
HasKeys(env) ==
    Truthy(Get(env, "AEMET_API_KEY")) /\ Truthy(Get(env, "WINDY_API_KEY"))

\* the Response of one of the two configuration checks
IsConfigurationError(r) ==
    /\ r # Null
    /\ r.body \in { Str("Configuration Error: AEMET_API_KEY secret is missing."),
                    Str("Configuration Error: WINDY_API_KEY secret is missing.") }

\* C7: an invocation with a missing API key never has a provider fetch in
\* flight, and the invocation that returns the configuration error returns it
\* with status 500 and changes neither the rotation state nor any fetch.
ConfigurationErrorBeforeAnyFetch ==
    /\ [](\A p \in Invocations : pc[p] \in InFlight => HasKeys(context[p]))
    /\ [][(response' # response /\ IsConfigurationError(response')) =>
             /\ response'.status = 500
             /\ UNCHANGED << currentIdentifierIndex, LAST_BROADCAST_TIME, rot >>
             /\ UNCHANGED << pc, weatherReport, windyData, aemetData >>
         ]_vars

\* a configuration error returned after a report had been generated
ConfigurationErrorReturned ==
    /\ response = ConfigErrorResponse("WINDY_API_KEY")
    /\ rot # Null /\ rot.currentIdentifier = "ALPHA" /\ currentIdentifierIndex = 0
    /\ \A p \in Invocations : pc[p] = "idle"

\* invocation p raises in this step: getFormattedAtisData rejects, or
\* formatReportForATIS throws on a snapshot without cloud layers
Raises(p) ==
    \/ pc[p] = "getFormattedAtisData" /\ pc'[p] = "idle"
    \/ RotationStep(p) /\ weatherReport[p]["clouds"].k # "list"

\* C8: an exception raised inside onRequest ends the invocation with a
\* Response of status 500 whose fullReport and datisReport both embed the
\* message of the error; the invocation fetches nothing again.
ExceptionBecomesErrorResult ==
    [][\A p \in Invocations :
          Raises(p) =>
             /\ response'.k = "response"
             /\ response'.status = 500
             /\ \E error \in {AemetFetchError, CloudsJoinError} :
                   /\ response'.body.fullReport = Str("SERVER ERROR: " \o error.v)
                   /\ response'.body.datisReport = Str("SERVER ERROR: " \o error.v)
             /\ pc'[p] = "idle"
             /\ weatherReport'[p] = Null
      ]_vars

\* the TypeError of the formatting, answered as an error result
ExceptionAnswered ==
    /\ response # Null
    /\ response.status = 500
    /\ response.body = [fullReport |-> Str("SERVER ERROR: " \o CloudsJoinError.v),
                        datisReport |-> Str("SERVER ERROR: " \o CloudsJoinError.v)]
    /\ rot # Null

\* C9 (as amended): the providers are awaited one after another and each
\* outcome is merged as soon as it settles: while the forecast is awaited the
\* snapshot is fresh, while the agency is awaited it holds the forecast merge,
\* while the station is awaited it holds the forecast and agency merges.
SequentialFusion ==
    \A p \in Invocations :
        /\ pc[p] = "fetchWindyData" => weatherReport[p] = NewWeatherReportData
        /\ pc[p] = "getFormattedAtisData" =>
              weatherReport[p] = mergeData(NewWeatherReportData, windyData[p])
        /\ pc[p] = "fetchAndParseLERMConditions" =>
              weatherReport[p] =
                  mergeData(mergeData(NewWeatherReportData, windyData[p]), aemetData[p])

\* the forecast is in the snapshot while the agency is still awaited
ForecastMergedMidFlight ==
    \E p \in Invocations :
        /\ pc[p] = "getFormattedAtisData"
        /\ windyData[p] = WindySnapshot
        /\ weatherReport[p]["clouds"] = List(<< "SKY CLEAR" >>)
        /\ weatherReport[p]["wind_speed"] = Num(5)

\* C9 as stated: no merge into the snapshot before all three providers have
\* settled
NoMergeBeforeAllSettled ==
    \A p \in Invocations :
        pc[p] \in InFlight => weatherReport[p] = NewWeatherReportData

\* C10 (as amended): the comparison with LAST_BROADCAST_TIME and the update of
\* the rotation state are one step; after every rotation step, overlapped by
\* another invocation or not, LAST_BROADCAST_TIME is the observationTime just
\* compared, the observationTime was judged new exactly when it differs from
\* the one of the rotation before, and the identifier returned is the one at
\* currentIdentifierIndex.
RotationStepAtomic ==
    rot # Null =>
        /\ LAST_BROADCAST_TIME = rot.observationTime
        /\ rot.isNewData = ~rot.repeat
        /\ rot.currentIdentifier = IdentifierAt(currentIdentifierIndex)

\* a rotation step overlapped by another invocation, repeating the
\* observationTime of the rotation before it, and not advancing
OverlappedRepeatKeeps ==
    /\ rot # Null /\ rot.overlapped /\ rot.repeat /\ ~rot.isNewData
    /\ \E p \in Invocations : pc[p] = "fetchAndParseLERMConditions"

\* C10 as stated: the comparison and the update are not one step: the step in
\* which an invocation overlapped by another one compares its observationTime
\* and finds it new leaves the rotation state as it read it, the write coming
\* in a later step, so that another rotation step can come in between
RotationReadWriteSeparate ==
    [][\A p \in Invocations :
          (RotationStep(p) /\ rot'.overlapped /\ rot'.isNewData) =>
              UNCHANGED << currentIdentifierIndex, LAST_BROADCAST_TIME >>
      ]_vars

----------------------------------------------------------------------------
(* Stand-alone calls of the time normalizer of robleEMA.js *)

\* the module state of atis.js at process start, no invocation of onRequest
\* under way
Quiescent ==
    /\ currentIdentifierIndex = InitialIdentifierIndex
    /\ LAST_BROADCAST_TIME = Null
    /\ pc = [p \in Invocations |-> "idle"]
    /\ context = [p \in Invocations |-> Null]
    /\ weatherReport = [p \in Invocations |-> Null]
    /\ windyData = [p \in Invocations |-> Null]
    /\ aemetData = [p \in Invocations |-> Null]
    /\ response = Null
    /\ rot = Null

CivilDays == {"winter", "spring", "summer"}
HoursOfDay == 0..23
MinuteSamples == {0, 1, 30, 59}

\* date/time strings handed to the normalizer: well-formed ones, a missing
\* one, an empty one, one whose components do not parse, one without a time
DateStrings ==
    { LocalTime(day, h, m) : day \in CivilDays, h \in HoursOfDay, m \in MinuteSamples }
    \cup {Null, Undefined, Str(""), Str("not a date"), Str("2025-03-30")}

\* zone names handed to the normalizer
ZoneNames == {Str("Europe/Madrid"), Str("Mars/Olympus"), Str(""), Undefined}

TimeInit ==
    /\ merge \in [stage : {"call"}, dateString : DateStrings, timeZoneIANA : ZoneNames]
    /\ Quiescent

\* getATISTimeFromLocalTime(dateString, timeZoneIANA)
CallGetATISTime ==
    /\ merge.stage = "call"
    /\ merge' = [stage |-> "return", fn |-> "getATISTimeFromLocalTime",
                 dateString |-> merge.dateString, timeZoneIANA |-> merge.timeZoneIANA,
                 result |-> getATISTimeFromLocalTime(merge.dateString, merge.timeZoneIANA)]
    /\ UNCHANGED pipelineVars

\* convertToAtisTime(rawTimeString), which fixes the zone to Europe/Madrid
CallConvertToAtisTime ==
    /\ merge.stage = "call"
    /\ merge' = [stage |-> "return", fn |-> "convertToAtisTime",
                 dateString |-> merge.dateString, timeZoneIANA |-> Str("Europe/Madrid"),
                 result |-> convertToAtisTimeLocal(merge.dateString)]
    /\ UNCHANGED pipelineVars

TimeNext == CallGetATISTime \/ CallConvertToAtisTime

TimeSpec == TimeInit /\ [][TimeNext]_vars

\* the offset in force in Europe/Madrid at a wall-clock time of the day: on the
\* last Sunday of March +1 before 02:00 and +2 from 03:00 on
WallClockOffset(day, h) ==
    CASE day = "winter" -> 1
      [] day = "summer" -> 2
      [] OTHER -> IF h < 2 THEN 1 ELSE 2

\* the wall-clock time exists (02:00-02:59 is skipped on the last Sunday of March)
WallClockExists(day, h) == ~(day = "spring" /\ h = 2)

\* the UTC time equivalent to a wall-clock time in Europe/Madrid
EquivalentUtc(local) ==
    Str(Pad2((local.h + 24 - WallClockOffset(local.day, local.h)) % 24)
        \o ":" \o Pad2(local.m) \o "Z")

\* C11 as stated: for a Europe/Madrid wall-clock time the normalizer returns
\* the equivalent UTC time, the wall clock minus the offset in force on that
\* date (+1 in winter, +2 in summer), also one minute before and one minute
\* after the spring transition.
AtisTimeIsEquivalentUtc ==
    ( /\ merge.stage = "return"
      /\ merge.dateString.k = "local"
      /\ merge.timeZoneIANA = Str("Europe/Madrid")
      /\ WallClockExists(merge.dateString.day, merge.dateString.h) )
    => merge.result = EquivalentUtc(merge.dateString)

\* the input is malformed: a missing, empty or non-parseable date string, or a
\* missing or unknown zone name
Malformed(dateString, timeZoneIANA) ==
    dateString.k # "local" \/ timeZoneIANA \notin KnownZones

\* C12: on a malformed input the time normalizer returns a sentinel string
\* ("Invalid Date", or "Time Unavailable" from convertToAtisTime on a missing
\* string) and never throws; a well-formed input yields a time string.
MalformedTimeYieldsSentinel ==
    merge.stage = "return" =>
        /\ merge.result.k = "str"
        /\ Malformed(merge.dateString, merge.timeZoneIANA) =>
              merge.result \in {Str("Invalid Date"), Str("Time Unavailable")}
        /\ (merge.fn = "getATISTimeFromLocalTime"
            /\ Malformed(merge.dateString, merge.timeZoneIANA)) =>
              merge.result = Str("Invalid Date")
        /\ ~Malformed(merge.dateString, merge.timeZoneIANA) =>
              merge.result \notin {Str("Invalid Date"), Str("Time Unavailable")}

\* a well-formed date string with an unknown zone name answered "Invalid Date"
UnknownZoneAnswered ==
    /\ merge.stage = "return"
    /\ merge.fn = "getATISTimeFromLocalTime"
    /\ merge.dateString = LocalTime("summer", 12, 30)
    /\ merge.timeZoneIANA = Str("Mars/Olympus")
    /\ merge.result = Str("Invalid Date")

----------------------------------------------------------------------------
(* Stand-alone calls of getVRBWind *)

\* whole-degree bearings
Bearings == 0..360

\* bearings handed to getVRBWind: unknown, whole degrees, and fractions
\* (349.5, 349.6, 10.4, 10.5, 359.5)
BearingInputs ==
    {Null, Undefined}
    \cup { Num(d) : d \in Bearings }
    \cup { Real(m) : m \in {34950000, 34960000, 1040000, 1050000, 35950000} }

VrbInit ==
    /\ merge \in [stage : {"call"}, windDir1 : BearingInputs, windDir2 : BearingInputs]
    /\ Quiescent

\* getVRBWind(windDir1, windDir2)
CallGetVRBWind ==
    /\ merge.stage = "call"
    /\ merge' = [stage |-> "return", windDir1 |-> merge.windDir1,
                 windDir2 |-> merge.windDir2,
                 result |-> getVRBWind(merge.windDir1, merge.windDir2)]
    /\ UNCHANGED pipelineVars

VrbSpec == VrbInit /\ [][CallGetVRBWind]_vars

\* the bearing rounded to whole degrees, halves upwards
WholeDegrees(x) == IF x.k = "num" THEN x.v ELSE (x.v + 50000) \div 100000

\* C13: getVRBWind is empty whenever either bearing is null or undefined, or
\* the two bearings are equal after rounding to whole degrees; getVRBWind(d, d)
\* is empty for every bearing d.
NoVariabilityWhenUnknownOrEqual ==
    merge.stage = "return" =>
        /\ (LooseNull(merge.windDir1) \/ LooseNull(merge.windDir2)) =>
              merge.result = Str("")
        /\ ( /\ ~LooseNull(merge.windDir1) /\ ~LooseNull(merge.windDir2)
             /\ WholeDegrees(merge.windDir1) = WholeDegrees(merge.windDir2) ) =>
              merge.result = Str("")
        /\ merge.windDir1 = merge.windDir2 => merge.result = Str("")

\* 349.5 and 350 are equal after rounding: no variability
NoVariabilityAfterRounding ==
    /\ merge.stage = "return"
    /\ merge.windDir1 = Real(34950000)
    /\ merge.windDir2 = Num(350)
    /\ merge.result = Str("")

\* the shortest arc between two whole-degree bearings passes through 0/360
CrossesNorth(d1, d2) == Abs(d1 - d2) > 180

\* C14: for distinct whole-degree bearings in 0..360 getVRBWind reports both,
\* zero-padded to 3 digits: the lower one first when the shortest arc does not
\* cross 0/360, the one nearer 360 first when it does; 350 and 10 give 350/010
\* in either argument order.
VariabilityOrderedByShortestArc ==
    ( /\ merge.stage = "return"
      /\ merge.windDir1.k = "num" /\ merge.windDir2.k = "num"
      /\ merge.windDir1 # merge.windDir2 )
    => LET d1 == merge.windDir1.v
           d2 == merge.windDir2.v
           first == IF CrossesNorth(d1, d2) THEN Max(d1, d2) ELSE Min(d1, d2)
           second == IF CrossesNorth(d1, d2) THEN Min(d1, d2) ELSE Max(d1, d2)
       IN  /\ merge.result = Str("VRB " \o Pad3(first) \o "/" \o Pad3(second))
           /\ ({d1, d2} = {350, 10}) => merge.result = Str("VRB 350/010")

\* 10 and 350, in this argument order, reported as 350/010
VariabilityAcrossNorth ==
    /\ merge.stage = "return"
    /\ merge.windDir1 = Num(10)
    /\ merge.windDir2 = Num(350)
    /\ merge.result = Str("VRB 350/010")

----------------------------------------------------------------------------
(* Stand-alone calls of uvToWind *)

\* directions a wind can blow towards, as Math.atan2 reports them in degrees
TowardDegrees == -179..180

\* wind speeds in m/s
SpeedSamples == {1, 2, 10}

\* pairs (u, v) handed to uvToWind: calm, every direction at each speed, and
\* pairs with a null component
ComponentPairs ==
    { << WindComponent("u", a, s), WindComponent("v", a, s) >> :
         a \in TowardDegrees, s \in SpeedSamples }
    \cup { << WindComponent("u", 0, 0), WindComponent("v", 0, 0) >>,
           << Null, WindComponent("v", 0, 2) >>,
           << WindComponent("u", 90, 2), Null >>,
           << Null, Null >> }

UvInit ==
    /\ merge \in [stage : {"call"}, uv : ComponentPairs]
    /\ Quiescent

\* uvToWind(u, v)
CallUvToWind ==
    /\ merge.stage = "call"
    /\ merge' = [stage |-> "return", uv |-> merge.uv,
                 result |-> uvToWind(merge.uv[1], merge.uv[2])]
    /\ UNCHANGED pipelineVars

UvSpec == UvInit /\ [][CallUvToWind]_vars

\* C15 as stated: for non-null components uvToWind returns a non-negative
\* speed and a bearing in [0, 360): 360 is never returned, also after the
\* rounding to the nearest 10 degrees.
BearingBelow360 ==
    (merge.stage = "return" /\ merge.uv[1] # Null /\ merge.uv[2] # Null) =>
        /\ merge.result.speed.v >= 0
        /\ merge.result.direction.v \in 0..359

----------------------------------------------------------------------------
(* Stand-alone calls of the cloud functions of windy.js *)

\* cover percentages handed to percentToOctas: 0..100, a missing value, and
\* fractions (0.5, 24.9, 87.5)
CoverPercents ==
    { Num(n) : n \in 0..100 } \cup {Null, Undefined}
    \cup { Real(m) : m \in {50000, 2490000, 8750000} }

OctasInit ==
    /\ merge \in [stage : {"call"}, percent : CoverPercents]
    /\ Quiescent

\* percentToOctas(percent)
CallPercentToOctas ==
    /\ merge.stage = "call"
    /\ merge' = [stage |-> "octas", percent |-> merge.percent,
                 octas |-> percentToOctas(merge.percent)]
    /\ UNCHANGED pipelineVars

\* octasToCode(octas) and octasToCodeShort(octas) on the octas just computed
CallOctasToCode ==
    /\ merge.stage = "octas"
    /\ merge' = [stage |-> "code", percent |-> merge.percent, octas |-> merge.octas,
                 code |-> octasToCode(merge.octas),
                 codeShort |-> octasToCodeShort(merge.octas)]
    /\ UNCHANGED pipelineVars

OctasNext == CallPercentToOctas \/ CallOctasToCode

OctasSpec == OctasInit /\ [][OctasNext]_vars

\* octas, long code and short code of a whole cover percentage by the
\* thresholds 88, 51, 25, 1
OctasTable(n) ==
    IF n >= 88 THEN << 8, "OVERCAST", "OVC" >>
    ELSE IF n >= 51 THEN << 7, "BROKEN", "BKN" >>
    ELSE IF n >= 25 THEN << 4, "SCATTERED", "SCT" >>
    ELSE IF n >= 1 THEN << 2, "FEW", "FEW" >>
    ELSE << 0, "SKY CLEAR", "SKC" >>

\* C16: percentToOctas maps every cover percentage 0..100 by the thresholds
\* >=88 -> 8, >=51 -> 7, >=25 -> 4, >=1 -> 2, else 0 (0->0, 1->2, 24->2, 25->4,
\* 50->4, 51->7, 87->7, 88->8), and the code functions map these octas to
\* OVERCAST/OVC, BROKEN/BKN, SCATTERED/SCT, FEW/FEW and SKY CLEAR/SKC.
OctasByThresholds ==
    (merge.stage \in {"octas", "code"} /\ merge.percent.k = "num") =>
        /\ merge.octas = OctasTable(merge.percent.v)[1]
        /\ merge.stage = "code" =>
              /\ merge.code = OctasTable(merge.percent.v)[2]
              /\ merge.codeShort = OctasTable(merge.percent.v)[3]
        /\ merge.octas = CASE merge.percent.v = 0 -> 0
                           [] merge.percent.v \in {1, 24} -> 2
                           [] merge.percent.v \in {25, 50} -> 4
                           [] merge.percent.v \in {51, 87} -> 7
                           [] merge.percent.v = 88 -> 8
                           [] OTHER -> merge.octas

\* 88 percent is 8 octas, OVERCAST, OVC
OvercastAtBoundary ==
    /\ merge.stage = "code"
    /\ merge.percent = Num(88)
    /\ merge.octas = 8
    /\ merge.code = "OVERCAST"
    /\ merge.codeShort = "OVC"

----------------------------------------------------------------------------
(* Stand-alone calls of estimateCloudAltitude *)

MinQnh == 300
MaxQnh == 1100

\* whole surface pressures in hPa, from below the highest reference level to
\* above any pressure observed at the surface
QnhValues == { Num(n) : n \in MinQnh..MaxQnh }

AltitudeInit ==
    /\ merge \in [stage : {"call"}, qnh : QnhValues]
    /\ Quiescent

\* estimateCloudAltitude(qnh)
CallEstimateCloudAltitude ==
    /\ merge.stage = "call"
    /\ merge' = [stage |-> "return", qnh |-> merge.qnh,
                 result |-> estimateCloudAltitude(merge.qnh)]
    /\ UNCHANGED pipelineVars

AltitudeSpec == AltitudeInit /\ [][CallEstimateCloudAltitude]_vars

\* `feet` is max(0, (qnh - ref) * 27) rounded to the nearest hundred
NearestHundred(feet, qnh, ref) ==
    /\ feet.k = "num"
    /\ feet.v >= 0
    /\ feet.v % 100 = 0
    /\ 2 * Abs(feet.v - Max(0, (qnh - ref) * 27)) <= 100

\* C17: for every whole QNH and each reference level 800, 600, 400 hPa the
\* estimated altitude is max(0, (qnh - ref) * 27) rounded to the nearest
\* 100 ft, never negative and a multiple of 100; QNH 1013 against 800 hPa
\* gives 5800 ft.
AltitudeRoundedToHundred ==
    merge.stage = "return" =>
        /\ NearestHundred(merge.result.altitudeLow, merge.qnh.v, 800)
        /\ NearestHundred(merge.result.altitudeMid, merge.qnh.v, 600)
        /\ NearestHundred(merge.result.altitudeHigh, merge.qnh.v, 400)
        /\ merge.qnh = Num(1013) => merge.result.altitudeLow = Num(5800)

\* QNH 1013: 5800 ft for the low layer
StandardPressureLowLayer ==
    /\ merge.stage = "return"
    /\ merge.qnh = Num(1013)
    /\ merge.result.altitudeLow = Num(5800)

----------------------------------------------------------------------------
(* Stand-alone calls of mapWindyCloudsToOctas *)

\* cover of one layer: missing, null, and the percentages around each
\* threshold
LayerPercents == {Null, Undefined} \cup { Num(n) : n \in {0, 1, 24, 25, 50, 51, 87, 88, 100} }

\* surface pressure above all three reference levels, and between the low and
\* the mid one
CloudQnh == { Num(1013), Num(700) }

CloudsInit ==
    /\ merge \in [stage : {"call"}, lclouds : LayerPercents, mclouds : LayerPercents,
                  hclouds : LayerPercents, qnh : CloudQnh]
    /\ Quiescent

\* mapWindyCloudsToOctas(lclouds_percent, mclouds_percent, hclouds_percent, qnh)
CallMapWindyCloudsToOctas ==
    /\ merge.stage = "call"
    /\ merge' = [merge EXCEPT !.stage = "return"] @@
                [result |-> mapWindyCloudsToOctas(merge.lclouds, merge.mclouds,
                                                  merge.hclouds, merge.qnh)]
    /\ UNCHANGED pipelineVars

CloudsSpec == CloudsInit /\ [][CallMapWindyCloudsToOctas]_vars

\* the layer has cover: at least 1 percent
HasCover(percent) == percent.k = "num" /\ percent.v >= 1

\* the long and the short entry of a layer with cover, at `feet`
LongEntry(percent, feet) ==
    OctasTable(percent.v)[2] \o " at " \o ToString(feet.v) \o " feet"

ShortEntry(percent, feet) ==
    OctasTable(percent.v)[3] \o " " \o ToString(feet.v) \o "ft"

\* the entries expected of the three layers, in low, mid, high order
ExpectedLayers(l, m, h, qnh, Entry(_, _)) ==
    LET alt == estimateCloudAltitude(qnh)
    IN  (IF HasCover(l) THEN << Entry(l, alt.altitudeLow) >> ELSE << >>)
        \o (IF HasCover(m) THEN << Entry(m, alt.altitudeMid) >> ELSE << >>)
        \o (IF HasCover(h) THEN << Entry(h, alt.altitudeHigh) >> ELSE << >>)

\* C18: mapWindyCloudsToOctas never returns an empty layer list: with no layer
\* of non-zero octas the lists are exactly SKY CLEAR and SKC, otherwise they
\* hold one entry per non-zero layer in low, mid, high order, and the long and
\* the short list have the same length and order.
CloudLayersNeverEmpty ==
    merge.stage = "return" =>
        LET long == merge.result.clouds.v
            short == merge.result.clouds_short.v
            expLong == ExpectedLayers(merge.lclouds, merge.mclouds, merge.hclouds,
                                      merge.qnh, LongEntry)
            expShort == ExpectedLayers(merge.lclouds, merge.mclouds, merge.hclouds,
                                       merge.qnh, ShortEntry)
        IN  /\ Len(long) >= 1
            /\ Len(short) = Len(long)
            /\ IF expLong = << >>
               THEN long = << "SKY CLEAR" >> /\ short = << "SKC" >>
               ELSE long = expLong /\ short = expShort

\* no layer has cover: exactly SKY CLEAR / SKC
ClearSkyReported ==
    /\ merge.stage = "return"
    /\ ~HasCover(merge.lclouds) /\ ~HasCover(merge.mclouds) /\ ~HasCover(merge.hclouds)
    /\ merge.result.clouds = List(<< "SKY CLEAR" >>)
    /\ merge.result.clouds_short = List(<< "SKC" >>)

----------------------------------------------------------------------------
(* Stand-alone calls of determineActiveRunway *)

\* wind directions handed to determineActiveRunway: every whole bearing, and
\* a direction that is null, undefined or NaN
WindDirections == { Num(n) : n \in Bearings } \cup {Null, Undefined, NaN}

RunwayInit ==
    /\ merge \in [stage : {"call"}, windDirectionDegrees : WindDirections]
    /\ Quiescent

\* determineActiveRunway(windDirectionDegrees)
CallDetermineActiveRunway ==
    /\ merge.stage = "call"
    /\ merge' = [stage |-> "return", windDirectionDegrees |-> merge.windDirectionDegrees,
                 result |-> determineActiveRunway(merge.windDirectionDegrees)]
    /\ UNCHANGED pipelineVars

RunwaySpec == RunwayInit /\ [][CallDetermineActiveRunway]_vars

\* the shortest angular distance between two bearings: the least rotation,
\* either way round, that takes one to the other
ShortestArc(a, b) ==
    CHOOSE d \in 0..180 :
        /\ \/ (a + d) % 360 = b % 360
           \/ (b + d) % 360 = a % 360
        /\ \A e \in 0..(d - 1) : (a + e) % 360 # b % 360 /\ (b + e) % 360 # a % 360

\* C19: for every bearing 0..360 determineActiveRunway selects the runway
\* (heading 010 for "01", 190 for "19") at the smaller shortest angular
\* distance from the wind, and on a tie (bearing 100 or 280) selects "01".
RunwayClosestToWind ==
    (merge.stage = "return" /\ merge.windDirectionDegrees.k = "num") =>
        LET b == merge.windDirectionDegrees.v
            to01 == ShortestArc(b, 10)
            to19 == ShortestArc(b, 190)
        IN  /\ to01 < to19 => merge.result = "01"
            /\ to19 < to01 => merge.result = "19"
            /\ to01 = to19 <=> b \in {100, 280}
            /\ b \in {100, 280} => merge.result = "01"

\* the wind at 100 degrees is 90 degrees from both runways: "01"
TieSelectsRunway01 ==
    /\ merge.stage = "return"
    /\ merge.windDirectionDegrees = Num(100)
    /\ ShortestArc(100, 10) = ShortestArc(100, 190)
    /\ merge.result = "01"

----------------------------------------------------------------------------
(* Stand-alone calls of the source normalizers *)

\* past3hprecip-surface of a forecast step, in metres: not in the payload,
\* null, none, and 1.2 mm
PrecipValues == {Undefined, Null, Num(0), Real(120)}

\* the wind components of a forecast step: a wind towards 170 degrees at
\* 3 m/s, both null, and both missing
WindPairs ==
    { << WindComponent("u", 170, 3), WindComponent("v", 170, 3) >>,
      << Null, Null >>, << Undefined, Undefined >> }

\* the forecast step fetchWindyData hands to parseWindyForecast
ForecastPayload(uv, gust, temp, dewpoint, pressure, precip, lclouds) ==
    Obj(("wind_u-surface" :> uv[1]) @@ ("wind_v-surface" :> uv[2])
        @@ ("gust-surface" :> gust) @@ ("temp-surface" :> temp)
        @@ ("dewpoint-surface" :> dewpoint) @@ ("pressure-surface" :> pressure)
        @@ ("past3hprecip-surface" :> precip) @@ ("lclouds-surface" :> lclouds)
        @@ ("mclouds-surface" :> Num(0)) @@ ("hclouds-surface" :> Num(0))
        @@ ("ptype-surface" :> Num(0)) @@ ("timestampUTC" :> Date(12, 0)))

ForecastPayloads ==
    { ForecastPayload(uv, gust, temp, dewpoint, pressure, precip, lclouds) :
        uv \in WindPairs, gust \in {Num(5), Null, Undefined},
        temp \in {Real(28815000), Undefined},
        dewpoint \in {Real(28115000), Undefined},
        pressure \in {Num(101300), Undefined},
        precip \in PrecipValues, lclouds \in {Num(0), Num(30), Undefined} }

\* the compass texts of the table of directionToDegrees
CompassTable ==
    {"N", "E", "S", "O", "NE", "SE", "SO", "NO", "NNE", "ENE", "ESE", "SSE",
     "SSO", "OSO", "ONO", "NNO", "VRB"}

\* cleaned compass texts of the station page: those of the table, the English
\* W and SW, and an empty text
CompassTexts == CompassTable \cup {"W", "SW", ""}

\* estadoCielo descriptions of the agency forecast, in lower case
SkyDescriptions ==
    {"despejado", "poco nuboso", "nubes altas", "intervalos nubosos", "nuboso",
     "muy nuboso", "cubierto", "cubierto con lluvia", "nuboso con tormenta",
     "niebla", "bruma", "calima", "chubascos", "lluvia", ""}

NormalizerInit ==
    /\ merge \in
          { [stage |-> "call", fn |-> "parseWindyForecast", arg |-> a] :
                a \in ForecastPayloads }
          \cup { [stage |-> "call", fn |-> "directionToDegrees", arg |-> a] :
                    a \in CompassTexts }
          \cup { [stage |-> "call", fn |-> "mapAemetToOctasAndPhenomenon", arg |-> a] :
                    a \in SkyDescriptions }
    /\ Quiescent

\* parseWindyForecast(windyData)
CallParseWindyForecast ==
    /\ merge.stage = "call"
    /\ merge.fn = "parseWindyForecast"
    /\ merge' = [stage |-> "return", fn |-> merge.fn, arg |-> merge.arg,
                 result |-> parseWindyForecast(merge.arg)]
    /\ UNCHANGED pipelineVars

\* results.wind_direction = directionToDegrees(direction_text)
CallDirectionToDegrees ==
    /\ merge.stage = "call"
    /\ merge.fn = "directionToDegrees"
    /\ merge' = [stage |-> "return", fn |-> merge.fn, arg |-> merge.arg,
                 result |-> Obj([wind_direction |-> Num(directionToDegrees(merge.arg))])]
    /\ UNCHANGED pipelineVars

\* mappedData = mapAemetToOctasAndPhenomenon(skyDescription)
CallMapAemetToOctasAndPhenomenon ==
    /\ merge.stage = "call"
    /\ merge.fn = "mapAemetToOctasAndPhenomenon"
    /\ merge' = [stage |-> "return", fn |-> merge.fn, arg |-> merge.arg,
                 result |-> Obj(mapAemetToOctasAndPhenomenon(merge.arg))]
    /\ UNCHANGED pipelineVars

NormalizerNext ==
    \/ CallParseWindyForecast
    \/ CallDirectionToDegrees
    \/ CallMapAemetToOctasAndPhenomenon

NormalizerSpec == NormalizerInit /\ [][NormalizerNext]_vars

\* the words by which a sky description determines the octas
SkyWords ==
    {"despejado", "poco nuboso", "nubes altas", "intervalos nubosos", "nuboso",
     "muy nuboso", "cubierto", "niebla", "bruma", "calima"}

\* the normalizer returned a snapshot for a payload that does not determine
\* the field
Undetermined(fn, field) ==
    /\ merge.stage = "return"
    /\ merge.fn = fn
    /\ field \in DOMAIN merge.result.v
    /\ CASE fn = "parseWindyForecast" ->
                LooseNull(Get(merge.arg, "past3hprecip-surface"))
         [] fn = "directionToDegrees" -> merge.arg \notin CompassTable
         [] OTHER -> \A w \in SkyWords : ~includes(merge.arg, w)

\* C20: a partial snapshot marks every field the payload did not determine as
\* null, never as zero or a guessed default: a forecast payload without
\* precipitation gives prec null, a compass text outside the table gives a
\* null bearing, an unrecognised sky description gives sky null.
UndeterminedFieldsAbsent ==
    /\ Undetermined("parseWindyForecast", "prec") => Get(merge.result, "prec") = Null
    /\ Undetermined("directionToDegrees", "wind_direction") =>
          Get(merge.result, "wind_direction") = Null
    /\ Undetermined("mapAemetToOctasAndPhenomenon", "sky") =>
          Get(merge.result, "sky") = Null

----------------------------------------------------------------------------
(* Stand-alone runs of the three record selections *)

MaxSeries == 3
LastInstant == 4

\* instants, in steps of the series, and the series a provider returns:
\* up to MaxSeries timestamps in any order, repeats included
Instants == 0..LastInstant
Series == UNION { [1..n -> Instants] : n \in 0..MaxSeries }

\* station records with the timestamps of a series; `n` tells records with
\* equal fint apart
Observations(series) == [i \in 1..Len(series) |-> [fint |-> series[i], n |-> i]]

\* the hourly periods of the municipal forecast used here, and the days of a
\* forecast: two days with up to two hourly predictions each, each prediction
\* with a description of its own
Periods == {0, 12}
HourlySeries == UNION { [1..n -> Periods] : n \in 0..2 }
Day(fecha, hours) ==
    [fecha |-> fecha,
     estadoCielo |-> [i \in 1..Len(hours) |->
                        [periodo |-> hours[i],
                         descripcion |-> "d" \o ToString(fecha) \o "p" \o ToString(i)]]]
Forecasts == { << Day(0, h0), Day(1, h1) >> : h0 \in HourlySeries, h1 \in HourlySeries }
ForecastNows == {0, 6, 12, 18, 24, 30, 36}

SelectInit ==
    /\ merge \in
          { [stage |-> "call", fn |-> "fetchWindyData", now |-> t, series |-> d] :
                t \in Instants, d \in Series }
          \cup { [stage |-> "call", fn |-> "findClosestObservation", now |-> t,
                  series |-> Observations(d)] : t \in Instants, d \in Series \ {<< >>} }
          \cup { [stage |-> "call", fn |-> "getSkyState", now |-> t, series |-> d] :
                    t \in ForecastNows, d \in Forecasts }
    /\ Quiescent

\* the forecast step selection of fetchWindyData
SelectForecastStep ==
    /\ merge.stage = "call" /\ merge.fn = "fetchWindyData"
    /\ merge' = [merge EXCEPT !.stage = "return"] @@
                [result |-> closestIndex(merge.series, merge.now)]
    /\ UNCHANGED pipelineVars

\* findClosestObservation(observationData)
SelectObservation ==
    /\ merge.stage = "call" /\ merge.fn = "findClosestObservation"
    /\ merge' = [merge EXCEPT !.stage = "return"] @@
                [result |-> findClosestObservation(merge.series, merge.now)]
    /\ UNCHANGED pipelineVars

\* the sky-state selection of getSkyState
SelectSkyState ==
    /\ merge.stage = "call" /\ merge.fn = "getSkyState"
    /\ merge' = [merge EXCEPT !.stage = "return"] @@
                [result |-> closestPrediction(merge.series, merge.now)]
    /\ UNCHANGED pipelineVars

SelectNext == SelectForecastStep \/ SelectObservation \/ SelectSkyState

SelectSpec == SelectInit /\ [][SelectNext]_vars

\* position k of the timestamps `stamps` is at the least distance from `now`,
\* and no earlier position is
FirstClosest(stamps, now, k) ==
    /\ k \in 1..Len(stamps)
    /\ \A j \in 1..Len(stamps) : Abs(now - stamps[k]) <= Abs(now - stamps[j])
    /\ \A j \in 1..(k - 1) : Abs(now - stamps[k]) < Abs(now - stamps[j])

\* the predictions of a forecast in the order they are met, as
\* << timestamp, description >>
Flat(days) ==
    [i \in 1..Len(days[1].estadoCielo) |->
        << days[1].fecha * 24 + days[1].estadoCielo[i].periodo,
           days[1].estadoCielo[i].descripcion >>]
    \o [i \in 1..Len(days[2].estadoCielo) |->
        << days[2].fecha * 24 + days[2].estadoCielo[i].periodo,
           days[2].estadoCielo[i].descripcion >>]

\* C21: from a time series each selection takes the single record whose
\* timestamp is at the least absolute distance from the current instant, and
\* among records at that distance the one met first: the forecast step, the
\* station record and the hourly sky state.
SelectsFirstClosestRecord ==
    (merge.stage = "return" /\ Len(merge.series) > 0) =>
        CASE merge.fn = "fetchWindyData" ->
                FirstClosest(merge.series, merge.now, merge.result + 1)
          [] merge.fn = "findClosestObservation" ->
                /\ FirstClosest([i \in 1..Len(merge.series) |-> merge.series[i].fint],
                                merge.now, merge.result.n)
                /\ merge.result = merge.series[merge.result.n]
          [] OTHER ->
                LET flat == Flat(merge.series)
                    stamps == [i \in 1..Len(flat) |-> flat[i][1]]
                IN  Len(flat) > 0 =>
                        \E k \in 1..Len(flat) :
                            /\ FirstClosest(stamps, merge.now, k)
                            /\ merge.result.skyDescription = flat[k][2]
                            /\ merge.result.day * 24 + merge.result.hour = flat[k][1]

\* two station records at the same least distance, before and after now: the
\* earlier one in the array is returned
TieTakesFirstRecord ==
    /\ merge.stage = "return" /\ merge.fn = "findClosestObservation"
    /\ Len(merge.series) = 2
    /\ merge.series[1].fint = merge.now + 1
    /\ merge.series[2].fint = merge.now - 1
    /\ merge.result = merge.series[1]

----------------------------------------------------------------------------
(* Stand-alone runs of the fusion of onRequest, lines 226-232, on what the  *)
(* three providers return for different bearings                           *)

\* fetchWindyData: null, or a forecast step with the wind from d
ForecastBearings == {0, 10, 180, 350}
FusionForecasts ==
    {Null} \cup { Put(Put(WindySnapshot, "wind_direction", Num(d)),
                      "gust_direction", Num(d)) : d \in ForecastBearings }

\* getFormattedAtisData: the Vado station reporting the wind from d, or
\* without wind values
AgencyBearings == {10, 180, 360}
FusionAgencies ==
    { processAemetData(vado, GuadaRecord) : vado \in VadoRecords }
    \cup { processAemetData(
               Obj([dv |-> Num(d), vv |-> Num(4), dmax |-> Num(d), vmax |-> Num(6),
                    ta |-> Num(20), prec |-> Num(0), fint |-> Date(12, 1)]),
               GuadaRecord) : d \in AgencyBearings }

\* fetchAndParseLERMConditions: the error record, a page without wind, and
\* pages with the wind from a compass text
StationTexts == {"N", "NE", "S", "O", "X"}
FusionStations ==
    LermOutcomes
    \cup { parseCleanConditions(
               [time |-> LocalTime("summer", 12, 1), temp |-> Num(22),
                wind |-> [k |-> "wind", kmh |-> 10, dir |-> t], qnh |-> Num(1016)]) :
               t \in StationTexts }

FusionInit ==
    /\ merge \in [stage : {"start"}, report : {NewWeatherReportData},
                  forecast : FusionForecasts, agency : FusionAgencies,
                  station : FusionStations]
    /\ Quiescent

\* weatherReport.mergeData(windyData)
FuseForecast ==
    /\ merge.stage = "start"
    /\ merge' = [merge EXCEPT !.stage = "forecast",
                              !.report = mergeWindy(merge.report, merge.forecast)]
    /\ UNCHANGED pipelineVars

\* weatherReport.mergeData(aemetData)
FuseAgency ==
    /\ merge.stage = "forecast"
    /\ merge' = [merge EXCEPT !.stage = "agency",
                              !.report = mergeAemet(merge.report, merge.agency)]
    /\ UNCHANGED pipelineVars

\* weatherReport.wind_vrb = getVRBWind(...); weatherReport.mergeData(LERMData)
FuseStation ==
    /\ merge.stage = "agency"
    /\ merge' = [merge EXCEPT !.stage = "station",
                              !.report = mergeLerm(merge.report, merge.station)]
    /\ UNCHANGED pipelineVars

FusionNext == FuseForecast \/ FuseAgency \/ FuseStation

FusionSpec == FusionInit /\ [][FusionNext]_vars

\* the bearing a provider's partial snapshot carries: null when it has none
BearingOf(snapshot) ==
    IF snapshot.k = "obj" /\ "wind_direction" \in DOMAIN snapshot.v
    THEN snapshot.v["wind_direction"] ELSE Null

\* the bearing held after the forecast and agency merges: the agency's when
\* it carries one, else the forecast's
PreLocalBearing ==
    IF BearingOf(merge.agency) # Null THEN BearingOf(merge.agency)
    ELSE BearingOf(merge.forecast)

\* text is the variability report of the two distinct whole bearings
VariabilityBetween(text, a, b) ==
    text \in { Str("VRB " \o Pad3(a.v) \o "/" \o Pad3(b.v)),
               Str("VRB " \o Pad3(b.v) \o "/" \o Pad3(a.v)) }

\* C22: wind_vrb of the final snapshot is the variability between the
\* local-station bearing and the bearing held after the forecast and agency
\* merges, it is empty when either is absent, and the local-station merge
\* leaves it as computed from those two bearings.
VariabilityFromPreLocalBearing ==
    merge.stage = "station" =>
        LET pre == PreLocalBearing
            local == BearingOf(merge.station)
            vrb == merge.report["wind_vrb"]
        IN  /\ (LooseNull(pre) \/ LooseNull(local)) => vrb = Str("")
            /\ (pre.k = "num" /\ local.k = "num") =>
                  IF pre = local THEN vrb = Str("")
                  ELSE VariabilityBetween(vrb, pre, local)
            /\ local.k = "num" => merge.report["wind_direction"] = local

\* the station bearing has replaced the pre-local one in the snapshot and the
\* variability still names both
VariabilityKeptAfterStationMerge ==
    /\ merge.stage = "station"
    /\ PreLocalBearing = Num(180)
    /\ BearingOf(merge.station) = Num(45)
    /\ merge.report["wind_direction"] = Num(45)
    /\ merge.report["wind_vrb"] = Str("VRB 045/180")

----------------------------------------------------------------------------
(* Stand-alone runs of formatReportForATIS and the two renderings, on fused *)
(* snapshots that differ in wind, gust, variability, visibility, cloud and  *)
(* phenomenon                                                              *)

\* wind and gust speeds in knots: calm, whole (forecast, local station), as
\* convertMpsToKnots leaves them (agency), and NaN (a forecast step or a
\* station record without the value)
WindSpeeds == {NaN, Num(0), Num(5), convertMpsToKnots(Num(4))}
GustSpeeds == {NaN, Num(0), Num(9), convertMpsToKnots(Num(6))}

\* wind_vrb as getVRBWind returns it: no variability, and a pair
Variabilities == {Str(""), Str("VRB 350/010")}

\* visibility in km: none, below, at and above the CAVOK threshold
Visibilities == {Null, Num(5), Num(10), Num(12)}

\* the cloud lists of mapWindyCloudsToOctas: clear sky, one layer, two layers
CloudLists ==
    { mapWindyCloudsToOctas(l, m, Num(0), Num(1013)) :
        l \in {Num(0), Num(30)}, m \in {Num(0), Num(90)} }

Phenomena == {Null, Str("Rain"), Str("Unknown")}

\* the fused snapshot handed to formatReportForATIS
RenderSnapshots ==
    { [NewWeatherReportData EXCEPT
          !["wind_direction"] = Num(350), !["wind_speed"] = ws,
          !["gust_direction"] = Num(350), !["gust_speed"] = gs,
          !["wind_vrb"] = vrb, !["visibility"] = vis,
          !["clouds"] = c.clouds, !["clouds_short"] = c.clouds_short,
          !["phenomenon"] = ph, !["temperature"] = Num(22), !["dew_point"] = Num(9),
          !["qnh"] = Num(1016), !["observationTime"] = Str("14:01Z")] :
        ws \in WindSpeeds, gs \in GustSpeeds, vrb \in Variabilities,
        vis \in Visibilities, c \in CloudLists, ph \in Phenomena }

RenderInit ==
    /\ merge \in [stage : {"call"}, reportData : RenderSnapshots]
    /\ currentIdentifierIndex = InitialIdentifierIndex
    /\ LAST_BROADCAST_TIME = Null
    /\ pc = [p \in Invocations |-> "idle"]
    /\ context = [p \in Invocations |-> Null]
    /\ weatherReport = [p \in Invocations |-> Null]
    /\ windyData = [p \in Invocations |-> Null]
    /\ aemetData = [p \in Invocations |-> Null]
    /\ response = Null
    /\ rot = Null

\* atisData = formatReportForATIS(weatherReport): the rotation step and the
\* formatted fields
FormatSnapshot ==
    /\ merge.stage = "call"
    /\ LET r == rotateIdentifier(merge.reportData["observationTime"],
                                 currentIdentifierIndex, LAST_BROADCAST_TIME)
       IN  /\ currentIdentifierIndex' = r.index
           /\ LAST_BROADCAST_TIME' = r.last
           /\ rot' = [observationTime |-> merge.reportData["observationTime"],
                      isNewData |-> r.isNewData,
                      currentIdentifier |-> r.currentIdentifier,
                      repeat |-> FALSE, overlapped |-> FALSE]
           /\ merge' = [stage |-> "formatted", reportData |-> merge.reportData,
                        atisData |-> formatReportFields(merge.reportData,
                                                        r.currentIdentifier)]
    /\ UNCHANGED << pc, context, weatherReport, windyData, aemetData, response >>

\* report = new ATISReport(atisData); get_full_report(); get_datis_report()
RenderReports ==
    /\ merge.stage = "formatted"
    /\ merge' = [stage |-> "rendered", reportData |-> merge.reportData,
                 atisData |-> merge.atisData,
                 report_parts |-> report_parts(merge.atisData),
                 datis_lines |-> datis_lines(merge.atisData),
                 fullReport |-> get_full_report(merge.atisData),
                 datisReport |-> get_datis_report(merge.atisData)]
    /\ UNCHANGED pipelineVars

RenderNext == FormatSnapshot \/ RenderReports

RenderSpec == RenderInit /\ [][RenderNext]_vars

\* the wind sentence of the spoken report and the wind line of the compact one
SpokenWind == merge.report_parts[5]
CompactWind == merge.datis_lines[4]

\* C23 as stated: when the fused wind speed is calm (0 knots) the wind
\* sentence of the spoken report is a calm-wind phrase and not the
\* bearing-and-speed sentence "Wind DDD at N knots".
CalmWindSpecialCase ==
    (merge.stage = "rendered" /\ merge.reportData["wind_speed"] = Num(0)) =>
        /\ ~includes(SpokenWind, " at 0 knots")
        /\ includes(toUpperCase(SpokenWind), "CALM")

\* the snapshot has a visibility above 10 and the single SKY CLEAR layer
CavokConditions ==
    /\ merge.reportData["visibility"].k = "num"
    /\ merge.reportData["visibility"].v > 10
    /\ merge.reportData["clouds"] = List(<< "SKY CLEAR" >>)

\* C24: in both rendered forms visibility and cloud are replaced by CAVOK
\* exactly when visibility is greater than 10 and the sky description is the
\* single SKY CLEAR layer; in every other case (visibility <= 10, visibility
\* absent, any cloud layer) the visibility and cloud clauses are rendered and
\* CAVOK is not.
CavokExactlyWhenClearAndVisible ==
    merge.stage = "rendered" =>
        IF CavokConditions
        THEN /\ merge.report_parts[6] = "CAVOK\n"
             /\ merge.datis_lines[5] = "CAVOK"
             /\ ~includes(merge.fullReport, "Visibility")
             /\ ~includes(merge.datisReport, "VIS ")
             /\ ~includes(merge.fullReport, "SKY CLEAR")
             /\ ~includes(merge.datisReport, "SKC")
        ELSE /\ ~includes(merge.fullReport, "CAVOK")
             /\ ~includes(merge.datisReport, "CAVOK")
             /\ includes(merge.report_parts[6], "Visibility "
                    \o JsString(merge.reportData["visibility"]) \o " kilometers")
             /\ includes(merge.report_parts[6],
                         Join(merge.reportData["clouds"].v, ", "))
             /\ includes(merge.datis_lines[5], "VIS "
                    \o JsString(merge.reportData["visibility"]) \o " KM")
             /\ includes(merge.datis_lines[5],
                         "Clouds " \o Join(merge.reportData["clouds_short"].v, "\t\n"))

\* visibility 12 under a clear sky: both forms say CAVOK
CavokRendered ==
    /\ merge.stage = "rendered"
    /\ merge.reportData["visibility"] = Num(12)
    /\ merge.reportData["clouds"] = List(<< "SKY CLEAR" >>)
    /\ includes(merge.fullReport, "CAVOK")
    /\ includes(merge.datisReport, "CAVOK")

\* the gust speed and the variability of the formatted snapshot
FormattedGust == merge.atisData.v["gust_speed"]
FormattedVrb == merge.atisData.v["wind_vrb"]

\* the wind speed as both wind lines print it
PrintedWindSpeed == JsString(merge.atisData.v["wind_speed"])

WholeKnots(x) == x.k = "num" /\ x.v >= 0

\* C26 as stated: the wind speed and the gust speed printed in both reports
\* are non-negative whole numbers of knots, whichever provider supplied
\* them: a speed from the agency source, converted from m/s without
\* rounding, is rounded before it is rendered.
SpeedsPrintedAsWholeKnots ==
    (merge.stage = "rendered" /\ merge.reportData["wind_speed"].k \in {"num", "real"}
        /\ merge.reportData["gust_speed"].k \in {"num", "real"}) =>
        /\ WholeKnots(merge.atisData.v["wind_speed"])
        /\ WholeKnots(merge.atisData.v["gust_speed"])
        /\ includes(SpokenWind,
                    " at " \o ToString(MathRound(merge.reportData["wind_speed"]).v) \o " knots. ")
        /\ includes(CompactWind,
                    "350/" \o ToString(MathRound(merge.reportData["wind_speed"]).v) \o " ")

----------------------------------------------------------------------------
(* Properties of the rotation state across generations *)

\* C27: in every reachable state currentIdentifierIndex is an integer in
\* 0..25 and, once a generation has reached the rotation step,
\* LAST_BROADCAST_TIME is the observationTime of the most recent such
\* generation; the identifier in that generation's two reports and in its
\* acknowledgment phrase is ATIS_IDENTIFIERS[currentIdentifierIndex] as it
\* stands right after that rotation step.
RotationStateInvariant ==
    /\ [](/\ currentIdentifierIndex \in 0..25
          /\ rot # Null => LAST_BROADCAST_TIME = rot.observationTime)
    /\ [][\A p \in Invocations :
            (RotationStep(p) /\ IsReport(response')) =>
                LET identifier == ATIS_IDENTIFIERS[currentIdentifierIndex' + 1]
                    phrase == "CONFIRM ATIS INFO " \o identifier \o " ON INITIAL CONTACT"
                IN  /\ response'.body.fullReport.identifier = identifier
                    /\ response'.body.datisReport.identifier = identifier
                    /\ response'.body.fullReport.acknowledgment = phrase
                    /\ response'.body.datisReport.acknowledgment = phrase
         ]_vars

\* a second generation with a new observationTime: index 1, BRAVO in the
\* acknowledgment phrase, its observationTime recorded
SecondIdentifierAcknowledged ==
    /\ rot # Null /\ rot.isNewData
    /\ currentIdentifierIndex = 1
    /\ LAST_BROADCAST_TIME = rot.observationTime
    /\ IsReport(response)
    /\ response.body.datisReport.acknowledgment = "CONFIRM ATIS INFO BRAVO ON INITIAL CONTACT"

\* invocation p ends in this step with an error result
ErrorResult(p) ==
    /\ pc[p] # "idle" /\ pc'[p] = "idle"
    /\ response'.status = 500

\* C28: a generation that ends in an error result (status 500) leaves
\* currentIdentifierIndex and LAST_BROADCAST_TIME as they were.
ErrorResultKeepsRotationState ==
    [][\A p \in Invocations :
            ErrorResult(p) =>
                UNCHANGED <<currentIdentifierIndex, LAST_BROADCAST_TIME>>
      ]_vars

\* the last generation to end was a rotation step that found its
\* observationTime new while another invocation was in flight, its report is
\* the current response, and p is in flight at its last await
FirstRotated(p) ==
    /\ rot # Null /\ rot.isNewData /\ rot.overlapped
    /\ IsReport(response)
    /\ response.body.fullReport.identifier = rot.currentIdentifier
    /\ pc[p] = "fetchAndParseLERMConditions"

\* C29: of overlapping invocations whose fused snapshots carry the same
\* observationTime t, with LAST_BROADCAST_TIME different from t at the start,
\* the first to reach the rotation step advances currentIdentifierIndex by
\* one; every later one finds t recorded, leaves the index where it is and
\* reports the identifier the first one reported.
OverlappingGenerationsAdvanceOnce ==
    [][\A p \in Invocations :
          RotationStep(p) =>
            /\ (rot'.overlapped /\ rot'.isNewData) =>
                  /\ currentIdentifierIndex' = (currentIdentifierIndex + 1) % 26
                  /\ LAST_BROADCAST_TIME' = rot'.observationTime
            /\ (FirstRotated(p) /\ rot'.observationTime = rot.observationTime) =>
                  /\ UNCHANGED <<currentIdentifierIndex, LAST_BROADCAST_TIME>>
                  /\ ~rot'.isNewData
                  /\ rot'.currentIdentifier = rot.currentIdentifier
                  /\ IsReport(response') =>
                        /\ response'.body.fullReport.identifier
                              = response.body.fullReport.identifier
                        /\ response'.body.datisReport.identifier
                              = response.body.datisReport.identifier
      ]_vars

\* the first of two overlapping invocations has rotated and answered, the
\* other one waits at its last await with the same observationTime
FirstOfOverlappingRotated ==
    \E p \in Invocations :
        /\ FirstRotated(p)
        /\ \A q \in Invocations \ {p} : pc[q] = "idle"
        /\ weatherReport[p]["observationTime"] = rot.observationTime
        /\ LAST_BROADCAST_TIME = rot.observationTime

----------------------------------------------------------------------------
(* getVRBWind and bearings that denote the same direction *)

\* C30: getVRBWind reports a pair only when the shortest arc between the two
\* rounded bearings is greater than 0 degrees: two bearings in 0..360 that
\* denote the same compass direction, such as 360 and 0, give no variability.
VariabilityOnlyForPositiveArc ==
    ( /\ merge.stage = "return"
      /\ ~LooseNull(merge.windDir1) /\ ~LooseNull(merge.windDir2) )
    => LET d1 == WholeDegrees(merge.windDir1)
           d2 == WholeDegrees(merge.windDir2)
       IN  /\ merge.result # Str("") => ShortestArc(d1, d2) > 0
           /\ d1 % 360 = d2 % 360 => merge.result = Str("")

====
